---- MODULE Spec2Model ----
(***************************************************************************)
(* A model of the document understanding and extraction engine of          *)
(* rpa-hisinone-digstu: the grade scale registry and converter             *)
(* (utils/grading_systems.py), the document classifier                     *)
(* (utils/document_classifier.py), the OCR text cache and the asynchronous *)
(* extraction wrapper (utils/ocr_ects.py) and the credit extraction        *)
(* (utils/ocr_engine.py).                                                  *)
(*                                                                         *)
(* Numbers.  Grades are integers in hundredths (4.0 is 400).  Pixel        *)
(* positions are integers in quarter pixels, so that a centroid x + w/2.0  *)
(* and the mean of two centroids stay integers.  Credits are integers in   *)
(* hundredths.  Text is a sequence of one-character strings.               *)
(***************************************************************************)
EXTENDS Integers, Sequences, FiniteSets, TLC

VARIABLES
    gr_pc,        \* grade conversion: "input" before the call, "done" after
    gr_country,   \* the country_name argument (a raw name)
    gr_foreign,   \* the foreign_grade argument, in hundredths
    gr_result     \* what convert_to_german returned, hundredths or None

gradeVars == <<gr_pc, gr_country, gr_foreign, gr_result>>

VARIABLES
    fs,               \* the files: path -> the document (bytes) stored there
    FILE_HASH_CACHE,  \* _FILE_HASH_CACHE: path -> content hash, or None
    OCR_TEXT_CACHE,   \* _OCR_TEXT_CACHE: (hash, dpi, psm, max_pages) -> text
    oc_last,          \* the last call of ocr_text_from_pdf and what it did
    oc_recognized,    \* history: the recognitions completed so far
    oc_calls,         \* the number of calls of ocr_text_from_pdf so far
    oc_writes         \* the number of files overwritten so far

cacheVars == <<fs, FILE_HASH_CACHE, OCR_TEXT_CACHE, oc_last, oc_recognized,
               oc_calls, oc_writes>>

VARIABLES
    cm_pc,                 \* classify_many: "idle", "loop" or "done"
    cm_paths,              \* its pdf_paths argument
    cm_program,            \* its program argument
    cm_i,                  \* the position of the loop in pdf_paths
    cm_doc,                \* the last result of classify_document
    cm_results,            \* history: the result of each iteration so far
    by_type,               \* label -> the paths given that label, in order
    best_transcript,       \* None, or the (path, scores) of the best one
    best_transcript_score  \* the transcript score of best_transcript, or -1

classifyVars == <<cm_pc, cm_paths, cm_program, cm_i, cm_doc, cm_results, by_type,
                  best_transcript, best_transcript_score>>

VARIABLES
    ex_pc,        \* extract_ects_ocr: "idle", "called", "ocr", "aggregate", "done"
    ex_in,        \* its arguments and the file system: doc, mapping, categories, exists
    ex_pages,     \* pages: the page images convert_from_path returned
    ex_tasks,     \* page -> None while its recognition task runs, then its result
    ex_failed,    \* history: the pages on which the OCR engine raised
    ex_k,         \* the number of page results the aggregation loop has consumed
    ex_acc,       \* line_seen, col_seen, the sums and the matches of both strategies
    ex_result,    \* None, or the 4-tuple extract_ects_ocr returned
    ex_raster,    \* history: the number of calls of convert_from_path
    ex_order      \* history: the pages in the order their tasks finished

extractVars == <<ex_pc, ex_in, ex_pages, ex_tasks, ex_failed, ex_k, ex_acc,
                 ex_result, ex_raster, ex_order>>

VARIABLES
    as_in,        \* call -> the arguments of extract_ects_hybrid_async and its work
    as_pool,      \* max_workers of the process pool of get_ocr_pool
    as_call,      \* call -> pc ("init", "waiting", "returned"), elapsed, result
    as_work,      \* call -> state of its work item in the pool, its progress, rasterizer use
    as_queue,     \* the work items submitted and not yet taken by a worker
    as_now        \* the time, in ticks

asyncVars == <<as_in, as_pool, as_call, as_work, as_queue, as_now>>

VARIABLES
    fn,           \* a single call of a function: its name, "idle" when there is none
    fn_in,        \* the arguments of the call
    fn_out        \* None before the call returns, then what it returned

callVars == <<fn, fn_in, fn_out>>

VARIABLES
    cc_args,      \* concurrent callers of ocr_text_from_pdf: caller -> its arguments
    cc_thread     \* caller -> its position, its cache key and its text

threadVars == <<cc_args, cc_thread>>

vars == <<gradeVars, cacheVars, classifyVars, extractVars, asyncVars, callVars, threadVars>>

\* Python's optional values: None is the empty set, a value v is {v}.
None == {}
Some(v) == {v}
Val(o) == CHOOSE v \in o : TRUE

Min(a, b) == IF a <= b THEN a ELSE b
Max(a, b) == IF a >= b THEN a ELSE b
Abs(a) == IF a >= 0 THEN a ELSE -a

(***************************************************************************)
(* utils/grading_systems.py                                                *)
(***************************************************************************)

\* _COUNTRY_ALIASES: alias key -> canonical country.
CountryAliases ==
    [a \in {"germany", "bundesrepublik deutschland", "deutschland"} |-> "germany"]
    @@ [a \in {"austria", "österreich", "oesterreich"} |-> "austria"]
    @@ [a \in {"switzerland", "schweiz", "suisse"} |-> "switzerland"]
    @@ [a \in {"united kingdom", "uk", "vereinigtes königreich",
               "vereinigtes koenigreich", "england", "scotland", "wales",
               "northern ireland"} |-> "united kingdom"]
    @@ [a \in {"united states", "united states of america", "usa", "u.s.a."}
          |-> "united states"]
    @@ [a \in {"canada"} |-> "canada"]
    @@ [a \in {"turkey", "türkei", "tuerkei"} |-> "turkey"]
    @@ [a \in {"india"} |-> "india"]
    @@ [a \in {"italy", "italien"} |-> "italy"]
    @@ [a \in {"france", "frankreich"} |-> "france"]
    @@ [a \in {"spain", "spanien"} |-> "spain"]
    @@ [a \in {"netherlands", "niederlande", "the netherlands"} |-> "netherlands"]
    @@ [a \in {"belgium", "belgien"} |-> "belgium"]
    @@ [a \in {"china", "pr china", "people's republic of china",
               "peoples republic of china"} |-> "china"]

\* GradeScale(direction, best_grade, pass_grade), grades in hundredths.
GradeScale(direction, best, pass) ==
    [direction |-> direction, best_grade |-> best, pass_grade |-> pass]

\* _COUNTRY_SCALES: canonical country -> scale.
CountryScales ==
    [c \in {"germany", "austria"} |-> GradeScale("descending", 100, 400)]
    @@ [c \in {"switzerland"} |-> GradeScale("ascending", 600, 400)]
    @@ [c \in {"united kingdom", "india"} |-> GradeScale("ascending", 10000, 4000)]
    @@ [c \in {"united states", "canada", "turkey"} |-> GradeScale("ascending", 400, 200)]
    @@ [c \in {"italy"} |-> GradeScale("ascending", 3000, 1800)]
    @@ [c \in {"france", "belgium", "portugal"} |-> GradeScale("ascending", 2000, 1000)]
    @@ [c \in {"spain", "brazil"} |-> GradeScale("ascending", 1000, 500)]
    @@ [c \in {"netherlands"} |-> GradeScale("ascending", 1000, 550)]
    @@ [c \in {"china"} |-> GradeScale("ascending", 10000, 6000)]
    @@ [c \in {"poland", "russia"} |-> GradeScale("ascending", 500, 300)]

(***************************************************************************)
(* A raw country name as a caller passes it: the text it holds once        *)
(* stripped and lowercased, and the surface form it is written in.  The    *)
(* empty string and the missing value (None) are falsy in Python; a        *)
(* string of blanks is not.                                                *)
(***************************************************************************)
RawName(text, form) == Some([text |-> text, form |-> form])
NameForms == {"plain", "upper_padded"}

IsFalsy(raw) == raw = None \/ (Val(raw).text = "" /\ Val(raw).form = "plain")

\* raw.strip().lower()
StripLower(raw) == Val(raw).text

\* normalize_country_name(raw)
normalize_country_name(raw) ==
    IF IsFalsy(raw) THEN None
    ELSE LET key == StripLower(raw)
         IN  IF key \in DOMAIN CountryAliases THEN Some(CountryAliases[key]) ELSE None

\* get_country_scale(country_name)
get_country_scale(country_name) ==
    IF IsFalsy(country_name) THEN None
    ELSE LET norm == normalize_country_name(country_name)
         IN  IF norm = None THEN None
             ELSE IF Val(norm) \in DOMAIN CountryScales THEN Some(CountryScales[Val(norm)])
             ELSE None

\* round(x, 2) of the rational num/den (den > 0) of hundredths: the nearest
\* integer.  On a decimal tie the binary floating point value the code rounds
\* lies on either side of it, so both neighbours are outcomes.
RoundDiv(num, den) ==
    LET q == num \div den
        r == num % den
    IN  IF 2 * r < den THEN {q}
        ELSE IF 2 * r > den THEN {q + 1}
        ELSE {q, q + 1}

\* A variant of ConvertOnScale without the range test on raw_german: a grade
\* within the 5-unit window is clamped into [1.0, 4.0] instead of rejected.
ConvertOnScale_Clamping(scale, g) ==
    LET best == scale.best_grade
        pass == scale.pass_grade
        low  == Min(best, pass) - 500
        high == Max(best, pass) + 500
        denom == IF scale.direction = "descending" THEN pass - best ELSE best - pass
        num   == IF scale.direction = "descending" THEN g - best ELSE best - g
        rawDen == Abs(denom)
        rawNum == 100 * Abs(denom) + (IF denom > 0 THEN 300 * num ELSE -300 * num)
    IN  IF g < low \/ g > high THEN {None}
        ELSE IF denom = 0 THEN {None}
        ELSE {Some(german) :
                german \in RoundDiv(Max(100 * rawDen, Min(400 * rawDen, rawNum)), rawDen)}

\* convert_to_german, the part after the scale lookup.  raw_german in
\* hundredths is the rational 100 + 300 * num / denom = rawNum / rawDen.  The
\* tolerance 1e-6 of the range test is below the resolution of these
\* rationals (grades in hundredths, rawDen <= 6000: a raw_german that is not
\* within [1.0, 4.0] misses it by more than 1e-6), so the test
\* raw_german < 1.0 - 1e-6 or raw_german > 4.0 + 1e-6 is the test
\* raw_german < 1.0 or raw_german > 4.0 here.  The value is the set of
\* results the call can return.
ConvertOnScale(scale, g) ==
    LET best == scale.best_grade
        pass == scale.pass_grade
        low  == Min(best, pass) - 500
        high == Max(best, pass) + 500
        denom == IF scale.direction = "descending" THEN pass - best ELSE best - pass
        num   == IF scale.direction = "descending" THEN g - best ELSE best - g
        \* raw_german = rawNum / rawDen hundredths, with rawDen > 0
        rawDen == Abs(denom)
        rawNum == 100 * Abs(denom) + (IF denom > 0 THEN 300 * num ELSE -300 * num)
    IN  IF g < low \/ g > high THEN {None}
        ELSE IF denom = 0 THEN {None}
        ELSE IF rawNum < 100 * rawDen \/ rawNum > 400 * rawDen THEN {None}
        ELSE {Some(german) :
                german \in RoundDiv(Max(100 * rawDen, Min(400 * rawDen, rawNum)), rawDen)}

\* convert_to_german(country_name, foreign_grade): the results the call can
\* return (one, but for a rounding tie).
convert_to_german(country_name, foreign_grade) ==
    LET scale == get_country_scale(country_name)
    IN  IF scale = None THEN {None} ELSE ConvertOnScale(Val(scale), foreign_grade)

(***************************************************************************)
(* The inputs of the grade conversion.                                     *)
(***************************************************************************)
GradeStep == 25      \* the grid of foreign grades, hundredths
GradeMargin == 2     \* grid steps beyond the 5-unit window on either side

UnknownNames == {"atlantis", "poland", "portugal", "brazil", "russia", ""}

RawNames ==
    {RawName(t, f) : t \in DOMAIN CountryAliases \cup UnknownNames, f \in NameForms}
    \cup {None}

\* The grades tried for a raw name: the grid over the scale's window and
\* beyond it; for a name without a scale, a few grades.
GridGrades(lo, hi) ==
    {lo + k * GradeStep : k \in 0 .. ((hi - lo) \div GradeStep)}

GradesFor(raw) ==
    LET scale == get_country_scale(raw)
        key == IF raw = None THEN "" ELSE Val(raw).text
    IN  IF scale # None
        THEN GridGrades(Min(Val(scale).best_grade, Val(scale).pass_grade) - 500 - GradeMargin * GradeStep,
                        Max(Val(scale).best_grade, Val(scale).pass_grade) + 500 + GradeMargin * GradeStep)
        ELSE IF key \in DOMAIN CountryScales
        THEN {CountryScales[key].best_grade, CountryScales[key].pass_grade}
        ELSE {100, 400}

GradeIdle ==
    /\ gr_pc = "idle" /\ gr_country = None /\ gr_foreign = 0 /\ gr_result = None

GradeInit ==
    /\ gr_pc = "input"
    /\ gr_country \in RawNames
    /\ gr_foreign \in GradesFor(gr_country)
    /\ gr_result = None

\* One call of convert_to_german.
ConvertToGerman ==
    /\ gr_pc = "input"
    /\ gr_result' \in convert_to_german(gr_country, gr_foreign)
    /\ gr_pc' = "done"
    /\ UNCHANGED <<gr_country, gr_foreign>>

GradeNext == ConvertToGerman

(***************************************************************************)
(* utils/grading_systems.py: verify_grade.  A result is the triple of      *)
(* is_consistent (None, or a Boolean), converted (None, or hundredths) and *)
(* the reason tag.                                                         *)
(***************************************************************************)
CallIdle == fn = "idle" /\ fn_in = None /\ fn_out = None
ThreadsIdle == cc_args = <<>> /\ cc_thread = <<>>

VerifyResult(ok, converted, reason) == [ok |-> ok, converted |-> converted, reason |-> reason]

DefaultTolerance == 20   \* tolerance: float = 0.2

\* abs(lo - hi) <= 0.2 in binary floating point, for two grades in
\* hundredths that are exactly 0.20 apart, lo the lower one in 1.00 .. 3.80:
\* the difference of the two nearest doubles is not 0.2 but lies on either
\* side of it (abs(1.0 - 1.2) is below, abs(2.0 - 2.2) above).  The pattern
\* is that of the doubles between 1.0 and 4.0.
TieWithin(lo) ==
    IF lo < 188 THEN lo < 113 \/ (lo - 113) % 25 >= 5
    ELSE \E j \in 0 .. 7, i \in 0 .. 9 : lo = 181 + 25 * j + 2 * i

\* diff <= tolerance for diff = abs(converted - float(claimed_german_grade)):
\* the outcomes of the comparison.  Off a tie the doubles compare as the
\* decimals do, and equal decimals are equal doubles; on a tie with the
\* default tolerance the outcome is that of TieWithin, with another
\* tolerance either outcome.
WithinTolerance(converted, claimed, tolerance) ==
    LET diff == Abs(converted - claimed)
    IN  IF diff # tolerance \/ tolerance = 0 THEN {diff <= tolerance}
        ELSE IF tolerance = DefaultTolerance THEN {TieWithin(Min(converted, claimed))}
        ELSE BOOLEAN

\* the part of verify_grade after the conversion
VerifyConverted(conv, claimed_german_grade, tolerance) ==
    IF conv = None THEN {VerifyResult(None, None, "NoScaleOrInvalidForeign")}
    ELSE LET converted == Max(100, Min(400, Val(conv)))
         IN  {IF within THEN VerifyResult(Some(TRUE), Some(converted), "OK")
                        ELSE VerifyResult(Some(FALSE), Some(converted), "BavarianMismatch") :
                within \in WithinTolerance(converted, Val(claimed_german_grade), tolerance)}

\* verify_grade(country_name, foreign_grade, claimed_german_grade, tolerance):
\* the results the call can return
verify_grade(country_name, foreign_grade, claimed_german_grade, tolerance) ==
    IF claimed_german_grade = None THEN {VerifyResult(None, None, "NoClaimedGrade")}
    ELSE UNION {VerifyConverted(conv, claimed_german_grade, tolerance) :
                   conv \in convert_to_german(country_name, foreign_grade)}

ClaimStep == 10          \* the grid of claimed grades, hundredths

VerifyNames == {"germany", "usa", "uk", "atlantis", "poland"}
VerifyInputs ==
    {[country |-> raw, foreign |-> g, claimed |-> c, tolerance |-> t] :
        raw \in {RawName(n, "plain") : n \in VerifyNames} \cup {None},
        g \in UNION {GradesFor(RawName(n, "plain")) : n \in VerifyNames},
        c \in {None} \cup {Some(100 + ClaimStep * k) : k \in 0 .. (300 \div ClaimStep)},
        t \in {0, DefaultTolerance}}

VerifyInit == fn = "verify_grade" /\ fn_in \in VerifyInputs /\ fn_out = None

\* One call of verify_grade.
VerifyGrade ==
    /\ fn = "verify_grade" /\ fn_out = None
    /\ \E r \in verify_grade(fn_in.country, fn_in.foreign, fn_in.claimed, fn_in.tolerance) :
          fn_out' = Some(r)
    /\ UNCHANGED <<fn, fn_in>>

(***************************************************************************)
(* Recognized text (utils/ocr_ects.py, utils/document_classifier.py).      *)
(*                                                                         *)
(* A text is the sequence of its lines (what splitting at "\n" gives, so   *)
(* the empty string is one empty line), a line the sequence of its         *)
(* lexemes: the words and phrases the classifier's patterns look for, and  *)
(* " " for blank space.  A pattern is the set of lexemes it matches in.    *)
(***************************************************************************)
EmptyText == << <<>> >>

\* "\n".join(text_parts)
RECURSIVE JoinLines(_)
JoinLines(text_parts) ==
    IF text_parts = <<>> THEN EmptyText
    ELSE IF Len(text_parts) = 1 THEN Head(text_parts)
    ELSE Head(text_parts) \o JoinLines(Tail(text_parts))

\* not text or text.isspace()
IsBlankText(text) ==
    \A i \in 1 .. Len(text) : \A k \in 1 .. Len(text[i]) : text[i][k] = " "

\* pattern.search(text)
Search(pattern, text) ==
    \E i \in 1 .. Len(text) : \E k \in 1 .. Len(text[i]) : text[i][k] \in pattern

\* sum(1 for _ in pattern.finditer(text)), for a pattern that matches once
\* in each of its lexemes
RECURSIVE CountInLine(_, _)
CountInLine(pattern, line) ==
    IF line = <<>> THEN 0
    ELSE (IF Head(line) \in pattern THEN 1 ELSE 0) + CountInLine(pattern, Tail(line))

RECURSIVE CountMatches(_, _)
CountMatches(pattern, text) ==
    IF text = <<>> THEN 0
    ELSE CountInLine(pattern, Head(text)) + CountMatches(pattern, Tail(text))

\* sum(1 for _ in LINE_WITH_DIGIT_RE.finditer(text)): the lines with a digit
DigitLexemes == {"2021", "1,3", "8"}

RECURSIVE CountDigitLines(_)
CountDigitLines(text) ==
    IF text = <<>> THEN 0
    ELSE (IF \E k \in 1 .. Len(Head(text)) : Head(text)[k] \in DigitLexemes THEN 1 ELSE 0)
         + CountDigitLines(Tail(text))

(***************************************************************************)
(* utils/document_classifier.py.  The module binds TRANSCRIPT_RE twice:    *)
(* to the pattern of TRANSCRIPT_KEYWORDS (line 23) and later to            *)
(* \b(?:transcript|ects|credits|cp)\b (line 115).  A function reads the    *)
(* name when it is called, so score_transcript and                         *)
(* score_degree_certificate both use the second.                           *)
(***************************************************************************)
\* The lexemes of the model that contain a phrase of TRANSCRIPT_KEYWORDS.
TRANSCRIPT_KEYWORDS == {"transcript of records", "notenspiegel", "grade report"}
\* TRANSCRIPT_RE as bound at line 23
TRANSCRIPT_RE_keywords == TRANSCRIPT_KEYWORDS
\* TRANSCRIPT_RE as bound at line 115, the binding in force
TRANSCRIPT_RE == {"transcript of records", "ects", "credits"}
ECTS_RE == {"ects", "leistungspunkte", "credits"}
SEMESTER_RE == {"wintersemester", "sose"}
GERMAN_CERT_RE == {"testdaf"}
GERMAN_GENERIC_RE == {"sprachprüfung"}
ENGLISH_CERT_RE == {"toefl"}
ENGLISH_GENERIC_RE == {"overall score"}
DEGREE_RE == {"zeugnis", "bachelor of"}
GRADE_RE == {"gesamtnote"}
VPD_KEYWORD_RE == {"vpd", "uni-assist"}
VPD_CONTENT_bewertung == {"bewertung"}
VPD_CONTENT_abschluss == {"ausländischer hochschulabschluss"}

score_transcript(text) ==
    (IF Search(TRANSCRIPT_RE, text) THEN 4 ELSE 0)
    + (IF Search(ECTS_RE, text) THEN 3 ELSE 0)
    + (IF CountMatches(SEMESTER_RE, text) >= 2 THEN 2 ELSE 0)
    + (IF CountDigitLines(text) > 20 THEN 1 ELSE 0)

\* program.lower()
ProgramLower(program) ==
    CASE program = "BWL" -> "bwl" [] program = "AI" -> "ai" [] OTHER -> program

score_language_cert(text, program) ==
    LET prog == ProgramLower(program) IN
    IF prog = "bwl"
    THEN (IF Search(GERMAN_CERT_RE, text) THEN 5 ELSE 0)
         + (IF Search(GERMAN_GENERIC_RE, text) THEN 2 ELSE 0)
    ELSE IF prog = "ai"
    THEN (IF Search(ENGLISH_CERT_RE, text) THEN 5 ELSE 0)
         + (IF Search(ENGLISH_GENERIC_RE, text) THEN 2 ELSE 0)
    ELSE 0

score_degree_certificate(text) ==
    (IF Search(DEGREE_RE, text) THEN 4 ELSE 0)
    + (IF Search(GRADE_RE, text) THEN 2 ELSE 0)
    + (IF ~Search(TRANSCRIPT_RE, text) THEN 1 ELSE 0)

\* VPD_CONTENT_RE: both phrases somewhere in the text
score_vpd(text) ==
    (IF Search(VPD_KEYWORD_RE, text) THEN 6 ELSE 0)
    + (IF Search(VPD_CONTENT_bewertung, text) /\ Search(VPD_CONTENT_abschluss, text)
       THEN 2 ELSE 0)

\* The keys of the scores dict, in the order the dict literal inserts them.
ScoreKeys == <<"transcript", "language_certificate", "degree_certificate", "vpd">>
Labels == {ScoreKeys[k] : k \in 1 .. Len(ScoreKeys)} \cup {"other"}

ZeroScores == [t \in {ScoreKeys[k] : k \in 1 .. Len(ScoreKeys)} |-> 0]

\* (a maximum that takes the last key of the highest score)
MaxKey_Last(scores) ==
    LET best == CHOOSE k \in 1 .. Len(ScoreKeys) :
                    /\ \A j \in 1 .. Len(ScoreKeys) : scores[ScoreKeys[j]] <= scores[ScoreKeys[k]]
                    /\ \A j \in k + 1 .. Len(ScoreKeys) : scores[ScoreKeys[j]] < scores[ScoreKeys[k]]
    IN  ScoreKeys[best]

\* max(scores, key=scores.get): the first key, in insertion order, whose
\* score no other key exceeds
MaxKey(scores) ==
    LET best == CHOOSE k \in 1 .. Len(ScoreKeys) :
                    /\ \A j \in 1 .. Len(ScoreKeys) : scores[ScoreKeys[j]] <= scores[ScoreKeys[k]]
                    /\ \A j \in 1 .. k - 1 : scores[ScoreKeys[j]] < scores[ScoreKeys[k]]
    IN  ScoreKeys[best]

\* The threshold of classify_document: a weaker best match is "other".
MinBestScore == 2

\* A variant of ClassifyText whose threshold is strict (best_score > 2).
ClassifyText_StrictThreshold(text, program) ==
    IF IsBlankText(text) THEN [doc_type |-> "other", scores |-> ZeroScores]
    ELSE LET scores == [t \in DOMAIN ZeroScores |->
                            CASE t = "transcript" -> score_transcript(text)
                              [] t = "language_certificate" -> score_language_cert(text, program)
                              [] t = "degree_certificate" -> score_degree_certificate(text)
                              [] t = "vpd" -> score_vpd(text)]
             best_type == MaxKey(scores)
             best_score == scores[best_type]
         IN  [doc_type |-> IF best_score > MinBestScore THEN best_type ELSE "other",
              scores |-> scores]

\* classify_document, after the recognition of the first page gave text
ClassifyText(text, program) ==
    IF IsBlankText(text) THEN [doc_type |-> "other", scores |-> ZeroScores]
    ELSE LET scores == [t \in DOMAIN ZeroScores |->
                            CASE t = "transcript" -> score_transcript(text)
                              [] t = "language_certificate" -> score_language_cert(text, program)
                              [] t = "degree_certificate" -> score_degree_certificate(text)
                              [] t = "vpd" -> score_vpd(text)]
             best_type == MaxKey(scores)
             best_score == scores[best_type]
         IN  [doc_type |-> IF best_score >= MinBestScore THEN best_type ELSE "other",
              scores |-> scores]

(***************************************************************************)
(* Documents.  A document (the bytes of a file) is named by a record; its  *)
(* pages are what the OCR engine recognizes on each page image when it     *)
(* does not fail.  The rasterizer fails on a corrupt document.             *)
(***************************************************************************)
FixedDoc(name) == [name |-> name, lex |-> {}, sem |-> 0, dig |-> 0]
\* A document of one page holding the lexemes lex on its first line, then
\* sem lines with a semester marker and dig lines with a number.
WideDoc(lex, sem, dig) == [name |-> "wide", lex |-> lex, sem |-> sem, dig |-> dig]

WideVocabulary ==
    <<"transcript of records", "notenspiegel", "ects", "leistungspunkte",
      "testdaf", "toefl", "zeugnis", "gesamtnote", "vpd",
      "bewertung", "ausländischer hochschulabschluss">>

Repeat(line, n) == [i \in 1 .. n |-> line]

DigitLinesMany == 21      \* more than the 20 lines score_transcript asks for

IsCorrupt(doc) == doc.name = "corrupt"

\* The page texts of a document at the default resolution.
DocPages(doc) ==
    CASE doc.name = "wide" ->
            << <<SelectSeq(WideVocabulary, LAMBDA w : w \in doc.lex)>>
               \o Repeat(<<"wintersemester">>, doc.sem)
               \o Repeat(<<"2021">>, doc.dig) >>
      [] doc.name = "transcriptA" ->
            << << <<"transcript of records">>, <<"ects", "8">> >>,
               << <<"hello", "1,3">> >> >>
      [] doc.name = "transcriptB" ->
            << << <<"transcript of records", "leistungspunkte">> >> >>
      [] doc.name = "transcriptC" ->
            << << <<"transcript of records">>, <<"credits">>,
                  <<"wintersemester", "2021">>, <<"sose", "2021">> >> >>
      [] doc.name = "degree" ->
            << << <<"zeugnis">>, <<"gesamtnote", "1,3">> >>,
               << <<"bachelor of">> >> >>
      [] doc.name = "language" ->
            << << <<"testdaf">>, <<"sprachprüfung">> >> >>
      [] doc.name = "english" ->
            << << <<"toefl">> >> >>
      [] doc.name = "vpdoc" ->
            << << <<"uni-assist">>, <<"bewertung", "ausländischer hochschulabschluss">> >> >>
      [] doc.name = "letter" ->
            << << <<"hello">> >> >>
      [] doc.name = "blank" ->
            << << <<" ">>, <<>> >> >>
      [] OTHER -> <<>>

\* CONFIG.DPI, CONFIG.DEFAULT_PSM of utils/ocr_ects.py
DEFAULT_DPI == 200
DEFAULT_PSM == 6

\* pytesseract.image_to_string on one page image: the page's text; at
\* another resolution than the default the engine reads one more line.
ImageToString(page, dpi) ==
    IF dpi = DEFAULT_DPI THEN page ELSE page \o << <<"hello">> >>

\* hashlib.sha1 of the file's content
Sha1(doc) == [sha1 |-> doc]

(***************************************************************************)
(* utils/ocr_ects.py: ocr_text_from_pdf and its caches.                    *)
(***************************************************************************)
\* _compute_file_hash(pdf_path), given the caches
compute_file_hash(pdf_path, files, hash_cache) ==
    IF hash_cache[pdf_path] # None
    THEN [digest |-> Val(hash_cache[pdf_path]), hash_cache |-> hash_cache]
    ELSE LET digest == Sha1(files[pdf_path])
         IN  [digest |-> digest,
              hash_cache |-> [hash_cache EXCEPT ![pdf_path] = Some(digest)]]

\* The cache key of ocr_text_from_pdf.
CacheKey(file_hash, dpi, max_pages) == <<file_hash, dpi, DEFAULT_PSM, max_pages>>

\* convert_from_path(pdf_path, dpi=dpi, last_page=max_pages): the page images
ConvertFromPath(doc, max_pages) ==
    LET pages == DocPages(doc)
    IN  IF max_pages = None THEN pages
        ELSE SubSeq(pages, 1, Min(Len(pages), Val(max_pages)))

\* (a recognition whose failure drops the text of the whole document)
ocr_single_image_Abort(page, dpi, fails) ==
    IF fails THEN <<>> ELSE ImageToString(page, dpi)

\* _ocr_single_image: the page's text, or "" when the engine fails or times out
ocr_single_image(page, dpi, fails) ==
    IF fails THEN EmptyText ELSE ImageToString(page, dpi)

\* ocr_text_from_pdf(pdf_path, dpi, max_pages), the engine failing on the
\* pages in failed: the text returned, the caches afterwards, and whether the
\* rasterizer and how often the OCR engine were invoked.
ocr_text_from_pdf(pdf_path, dpi, max_pages, failed, files, hash_cache, text_cache) ==
    LET h == compute_file_hash(pdf_path, files, hash_cache)
        cache_key == CacheKey(h.digest, dpi, max_pages)
        doc == files[pdf_path]
        images == ConvertFromPath(doc, max_pages)
        text_parts == [i \in 1 .. Len(images) |->
                          ocr_single_image(images[i], dpi, i \in failed)]
        full_text == JoinLines(text_parts)
    IN  IF cache_key \in DOMAIN text_cache
        THEN [text |-> text_cache[cache_key], hash_cache |-> h.hash_cache,
              text_cache |-> text_cache, hit |-> TRUE,
              rasterized |-> FALSE, engine_calls |-> 0]
        ELSE IF IsCorrupt(doc)
        THEN [text |-> EmptyText, hash_cache |-> h.hash_cache,
              text_cache |-> text_cache, hit |-> FALSE,
              rasterized |-> TRUE, engine_calls |-> 0]
        ELSE [text |-> full_text, hash_cache |-> h.hash_cache,
              text_cache |-> (cache_key :> full_text) @@ text_cache, hit |-> FALSE,
              rasterized |-> TRUE, engine_calls |-> Len(images)]

\* The pages the engine can fail on in a call.
PagesRead(pdf_path, max_pages, files) ==
    1 .. Len(ConvertFromPath(files[pdf_path], max_pages))

\* A call of ocr_text_from_pdf, recorded in oc_last with the recognitions
\* that were completed before it for the same bytes, resolution and limit.
OcrCall(pdf_path, dpi, max_pages, failed) ==
    LET r == ocr_text_from_pdf(pdf_path, dpi, max_pages, failed,
                               fs, FILE_HASH_CACHE, OCR_TEXT_CACHE)
        doc == fs[pdf_path]
    IN  /\ FILE_HASH_CACHE' = r.hash_cache
        /\ OCR_TEXT_CACHE' = r.text_cache
        /\ oc_last' = Some([pdf_path |-> pdf_path, dpi |-> dpi, max_pages |-> max_pages,
                            bytes |-> doc, text |-> r.text, hit |-> r.hit,
                            failed |-> failed,
                            rasterized |-> r.rasterized, engine_calls |-> r.engine_calls,
                            known |-> {e.text : e \in {x \in oc_recognized :
                                          /\ x.bytes = doc /\ x.dpi = dpi
                                          /\ x.max_pages = max_pages}}])
        /\ oc_recognized' =
              IF r.rasterized /\ ~IsCorrupt(doc)
              THEN oc_recognized \cup {[bytes |-> doc, dpi |-> dpi,
                                        max_pages |-> max_pages, text |-> r.text]}
              ELSE oc_recognized
        /\ oc_calls' = oc_calls + 1
        /\ UNCHANGED <<fs, oc_writes>>

(***************************************************************************)
(* utils/document_classifier.py: classify_document and classify_many.      *)
(***************************************************************************)
\* classify_document(pdf_path, program): recognizes the first page only,
\* through ocr_text_from_pdf and its caches, and leaves its result in cm_doc.
classify_document(pdf_path, program, failed) ==
    /\ OcrCall(pdf_path, DEFAULT_DPI, Some(1), failed)
    /\ cm_doc' = ClassifyText(Val(oc_last').text, program)

EmptyByType == [l \in Labels |-> <<>>]

\* A variant of IsBetterTranscript that also replaces on an equal score.
IsBetterTranscript_OrEqual(sc, best_score) == sc >= best_score

\* sc > best_transcript_score
IsBetterTranscript(sc, best_score) == sc > best_score

\* One iteration of the loop of classify_many.
ClassifyManyStep ==
    /\ cm_pc = "loop"
    /\ cm_i <= Len(cm_paths)
    /\ LET pdf_path == cm_paths[cm_i]
       IN  /\ \E failed \in SUBSET PagesRead(pdf_path, Some(1), fs) :
                 classify_document(pdf_path, cm_program, failed)
           /\ by_type' = [by_type EXCEPT ![cm_doc'.doc_type] = Append(@, pdf_path)]
           /\ cm_results' = Append(cm_results, cm_doc')
           /\ IF cm_doc'.doc_type = "transcript"
                 /\ IsBetterTranscript(cm_doc'.scores["transcript"], best_transcript_score)
              THEN /\ best_transcript_score' = cm_doc'.scores["transcript"]
                   /\ best_transcript' = Some(<<pdf_path, cm_doc'.scores>>)
              ELSE UNCHANGED <<best_transcript, best_transcript_score>>
    /\ cm_i' = cm_i + 1
    /\ UNCHANGED <<cm_pc, cm_paths, cm_program>>

\* The loop is over: classify_many returns by_type and best_transcript.
ClassifyManyReturn ==
    /\ cm_pc = "loop"
    /\ cm_i > Len(cm_paths)
    /\ cm_pc' = "done"
    /\ UNCHANGED <<cm_paths, cm_program, cm_i, cm_doc, cm_results, by_type, best_transcript,
                   best_transcript_score, cacheVars>>

(***************************************************************************)
(* The inputs of the classifier.                                           *)
(***************************************************************************)
MaxDocs == 3     \* the longest pdf_paths list

ClassifyDocs ==
    <<"transcriptA", "transcriptB", "transcriptC", "degree", "language",
      "vpdoc", "letter", "blank", "corrupt">>

ClassifyPaths == 1 .. Len(ClassifyDocs)

\* The files of an applicant: one path per document.
StandardFiles == [p \in ClassifyPaths |-> FixedDoc(ClassifyDocs[p])]

Programs == {"bwl", "ai", "BWL"}

SeqsUpTo(S, n) == UNION {[1 .. k -> S] : k \in 0 .. n}

WideDocs ==
    {WideDoc(lex, sem, dig) :
        lex \in SUBSET {WideVocabulary[k] : k \in 1 .. Len(WideVocabulary)},
        sem \in {0, 2}, dig \in {0, DigitLinesMany}}

NoCall == None

CacheIdle ==
    /\ fs = <<>> /\ FILE_HASH_CACHE = <<>> /\ OCR_TEXT_CACHE = <<>>
    /\ oc_last = NoCall /\ oc_recognized = {}
    /\ oc_calls = 0 /\ oc_writes = 0

ClassifyIdle ==
    /\ cm_pc = "idle" /\ cm_paths = <<>> /\ cm_program = "" /\ cm_i = 0
    /\ cm_doc = [doc_type |-> "other", scores |-> ZeroScores]
    /\ cm_results = <<>>
    /\ by_type = EmptyByType
    /\ best_transcript = None /\ best_transcript_score = -1

\* classify_many is called on a list of an applicant's files, or on one file
\* of arbitrary content; the caches are those of a fresh process.
ClassifyInit ==
    /\ cm_pc = "loop" /\ cm_i = 1
    /\ cm_program \in Programs
    /\ \/ /\ fs = StandardFiles
          /\ cm_paths \in SeqsUpTo(ClassifyPaths, MaxDocs)
       \/ /\ fs \in {[p \in {1} |-> d] : d \in WideDocs}
          /\ cm_paths = <<1>>
    /\ FILE_HASH_CACHE = [p \in DOMAIN fs |-> None]
    /\ OCR_TEXT_CACHE = <<>>
    /\ oc_last = NoCall /\ oc_recognized = {}
    /\ oc_calls = 0 /\ oc_writes = 0
    /\ cm_doc = [doc_type |-> "other", scores |-> ZeroScores]
    /\ cm_results = <<>>
    /\ by_type = EmptyByType
    /\ best_transcript = None /\ best_transcript_score = -1

ClassifyNext ==
    \/ ClassifyManyStep /\ UNCHANGED gradeVars
    \/ ClassifyManyReturn /\ UNCHANGED gradeVars

(***************************************************************************)
(* The callers of ocr_text_from_pdf over the life of the process, and the  *)
(* files changing under it.                                                *)
(***************************************************************************)
MaxCalls == 3        \* calls of ocr_text_from_pdf in a run
MaxWrites == 1       \* files overwritten in a run

CachePaths == {1, 2}
CacheDocs == {FixedDoc("transcriptA"), FixedDoc("degree"), FixedDoc("corrupt")}
CacheDpis == {DEFAULT_DPI, 300}
CachePageLimits == {None, Some(1)}

\* A caller runs ocr_text_from_pdf; the engine may fail on the first page.
OcrTextFromPdf ==
    /\ oc_calls < MaxCalls
    /\ \E pdf_path \in DOMAIN fs, dpi \in CacheDpis, max_pages \in CachePageLimits :
          \E failed \in SUBSET (PagesRead(pdf_path, max_pages, fs) \cap {1}) :
             OcrCall(pdf_path, dpi, max_pages, failed)

\* The file at a path is replaced by another document.
Overwrite ==
    /\ oc_writes < MaxWrites
    /\ \E pdf_path \in DOMAIN fs, doc \in CacheDocs :
          /\ doc # fs[pdf_path]
          /\ fs' = [fs EXCEPT ![pdf_path] = doc]
    /\ oc_writes' = oc_writes + 1
    /\ UNCHANGED <<FILE_HASH_CACHE, OCR_TEXT_CACHE, oc_last, oc_recognized, oc_calls>>

CacheInit ==
    /\ fs \in [CachePaths -> CacheDocs]
    /\ FILE_HASH_CACHE = [p \in CachePaths |-> None]
    /\ OCR_TEXT_CACHE = <<>>
    /\ oc_last = NoCall /\ oc_recognized = {}
    /\ oc_calls = 0 /\ oc_writes = 0

CacheNext ==
    \/ OcrTextFromPdf
    \/ Overwrite

(***************************************************************************)
(* Threads that run ocr_text_from_pdf at the same time on the caches of    *)
(* the process.  A thread computes its key and looks the cache up, then    *)
(* rasterizes and recognizes, then writes the cache and returns; the       *)
(* dictionaries are read and written one operation at a time.              *)
(***************************************************************************)
MaxCallers == 2
Callers == 1 .. MaxCallers

\* file_hash = _compute_file_hash(pdf_path); if cache_key in _OCR_TEXT_CACHE
ThreadLookup(t) ==
    /\ cc_thread[t].pc = "called"
    /\ LET h == compute_file_hash(cc_args[t].pdf_path, fs, FILE_HASH_CACHE)
           cache_key == CacheKey(h.digest, cc_args[t].dpi, cc_args[t].max_pages)
       IN  /\ FILE_HASH_CACHE' = h.hash_cache
           /\ cc_thread' = [cc_thread EXCEPT ![t] =
                 IF cache_key \in DOMAIN OCR_TEXT_CACHE
                 THEN [pc |-> "returned", cache_key |-> Some(cache_key),
                       text |-> OCR_TEXT_CACHE[cache_key], failed |-> {}]
                 ELSE [@ EXCEPT !.pc = "recognize", !.cache_key = Some(cache_key)]]
    /\ UNCHANGED <<fs, OCR_TEXT_CACHE, oc_last, oc_recognized, oc_calls, oc_writes, cc_args>>

\* convert_from_path and the loop over the images; the engine fails on the
\* pages in failed.
ThreadRecognize(t) ==
    /\ cc_thread[t].pc = "recognize"
    /\ LET doc == fs[cc_args[t].pdf_path]
           images == ConvertFromPath(doc, cc_args[t].max_pages)
       IN  \E failed \in SUBSET (1 .. Len(images)) :
              cc_thread' = [cc_thread EXCEPT ![t] =
                 IF IsCorrupt(doc)
                 THEN [@ EXCEPT !.pc = "returned", !.text = EmptyText]
                 ELSE [@ EXCEPT !.pc = "write", !.failed = failed,
                                !.text = JoinLines([i \in 1 .. Len(images) |->
                                            ocr_single_image(images[i], cc_args[t].dpi,
                                                             i \in failed)])]]
    /\ UNCHANGED <<cacheVars, cc_args>>

\* _OCR_TEXT_CACHE[cache_key] = full_text; return full_text
ThreadWrite(t) ==
    /\ cc_thread[t].pc = "write"
    /\ OCR_TEXT_CACHE' = (Val(cc_thread[t].cache_key) :> cc_thread[t].text) @@ OCR_TEXT_CACHE
    /\ cc_thread' = [cc_thread EXCEPT ![t].pc = "returned"]
    /\ UNCHANGED <<fs, FILE_HASH_CACHE, oc_last, oc_recognized, oc_calls, oc_writes, cc_args>>

\* The callers ask for the same document at the same resolution and page
\* limit, by one path or by two paths of the same content; the caches are
\* those of a fresh process.
ThreadsInit ==
    /\ \E doc \in CacheDocs : fs = [p \in CachePaths |-> doc]
    /\ FILE_HASH_CACHE = [p \in CachePaths |-> None]
    /\ OCR_TEXT_CACHE = <<>>
    /\ oc_last = NoCall /\ oc_recognized = {}
    /\ oc_calls = 0 /\ oc_writes = 0
    /\ \E dpi \in CacheDpis, max_pages \in CachePageLimits :
          cc_args \in [Callers -> [pdf_path : CachePaths, dpi : {dpi}, max_pages : {max_pages}]]
    /\ cc_thread = [t \in Callers |->
                       [pc |-> "called", cache_key |-> None, text |-> EmptyText, failed |-> {}]]

ThreadsNext ==
    \/ \E t \in Callers : ThreadLookup(t)
    \/ \E t \in Callers : ThreadRecognize(t)
    \/ \E t \in Callers : ThreadWrite(t)

(***************************************************************************)
(* utils/ocr_engine.py: strings.  A string is the sequence of its          *)
(* characters, each a one-character string.                                *)
(***************************************************************************)
UpperCase == <<"A", "B", "C", "D", "E", "F", "G", "H", "I", "J", "K", "L", "M",
               "N", "O", "P", "Q", "R", "S", "T", "U", "V", "W", "X", "Y", "Z",
               "Ä", "Ö", "Ü">>
LowerCase == <<"a", "b", "c", "d", "e", "f", "g", "h", "i", "j", "k", "l", "m",
               "n", "o", "p", "q", "r", "s", "t", "u", "v", "w", "x", "y", "z",
               "ä", "ö", "ü">>
AsciiLower == {LowerCase[i] : i \in 1 .. 26}
AsciiUpper == {UpperCase[i] : i \in 1 .. 26}
Digits == {"0", "1", "2", "3", "4", "5", "6", "7", "8", "9"}
Whitespace == {" ", "\t", "\n"}

\* str.lower, one character and a string
LowerChar(c) ==
    IF \E i \in DOMAIN UpperCase : UpperCase[i] = c
    THEN LowerCase[CHOOSE i \in DOMAIN UpperCase : UpperCase[i] = c]
    ELSE c
lower(s) == [i \in 1 .. Len(s) |-> LowerChar(s[i])]

\* str.isspace and str.strip
isspace(s) == s # <<>> /\ \A i \in 1 .. Len(s) : s[i] \in Whitespace
strip(s) ==
    LET black == {i \in 1 .. Len(s) : s[i] \notin Whitespace}
    IN  IF black = {} THEN <<>>
        ELSE SubSeq(s, CHOOSE i \in black : \A j \in black : i <= j,
                       CHOOSE i \in black : \A j \in black : i >= j)

\* sub in s, for Python strings
Contains(sub, s) ==
    \E i \in 0 .. Len(s) - Len(sub) : SubSeq(s, i + 1, i + Len(sub)) = sub

\* " ".join(parts)
RECURSIVE JoinSpace(_)
JoinSpace(parts) ==
    IF parts = <<>> THEN <<>>
    ELSE IF Len(parts) = 1 THEN parts[1]
    ELSE parts[1] \o <<" ">> \o JoinSpace(Tail(parts))

UMLAUT_MAP == [c \in {"ä", "ö", "ü", "ß"} |->
                 CASE c = "ä" -> <<"a", "e">>
                   [] c = "ö" -> <<"o", "e">>
                   [] c = "ü" -> <<"u", "e">>
                   [] c = "ß" -> <<"s", "s">>]

\* UMLAUT_PATTERN.sub(...)
RECURSIVE SubUmlaut(_)
SubUmlaut(s) ==
    IF s = <<>> THEN <<>>
    ELSE (IF Head(s) \in DOMAIN UMLAUT_MAP THEN UMLAUT_MAP[Head(s)] ELSE <<Head(s)>>)
         \o SubUmlaut(Tail(s))

\* NON_ALPHANUM_PATTERN.sub(" ", s)
SubNonAlphanum(s) ==
    [i \in 1 .. Len(s) |->
        IF s[i] \in AsciiLower \cup Digits \cup Whitespace THEN s[i] ELSE " "]

\* WHITESPACE_PATTERN.sub(" ", s): every run of whitespace becomes one blank
RECURSIVE SubWhitespace(_)
SubWhitespace(s) ==
    IF s = <<>> THEN <<>>
    ELSE IF Head(s) \in Whitespace
         THEN IF Len(s) > 1 /\ s[2] \in Whitespace
              THEN SubWhitespace(Tail(s))
              ELSE <<" ">> \o SubWhitespace(Tail(s))
         ELSE <<Head(s)>> \o SubWhitespace(Tail(s))

normalize_text(s) == strip(SubWhitespace(SubNonAlphanum(SubUmlaut(lower(s)))))

\* TRASH_PATTERN: four letters in a row; TRASH_PATTERN_2: a digit
TrashLetters == AsciiLower \cup AsciiUpper \cup {"Ä", "Ö", "Ü", "ä", "ö", "ü", "ß"}
is_trash_line(line) ==
    IF line = <<>> \/ isspace(line) THEN TRUE
    ELSE IF \E i \in 1 .. Len(line) - 3 :
               \A j \in i .. i + 3 : line[j] \in TrashLetters THEN FALSE
    ELSE IF \E i \in 1 .. Len(line) : line[i] \in Digits THEN TRUE
    ELSE FALSE

\* The strings normalize_text is called on: all strings of up to MaxTextLen
\* characters of a small alphabet (letters of either case, umlauts, a digit,
\* punctuation, white space, and the letters dotless i and the ligature fi
\* an OCR engine emits), and the name "Müller-Straße" in two spellings.
\* Code points beyond Latin-1 are written by name.
MaxTextLen == 3
DotlessI == "U+0131"
LigatureFi == "U+FB01"
TextAlphabet == {"a", "M", "s", "ü", "Ä", "ß", "8", "-", " ", "\t", DotlessI, LigatureFi}
MuellerStrasse == <<"M", "ü", "l", "l", "e", "r", "-", "S", "t", "r", "a", "ß", "e">>
MUELLER_STRASSE == <<"M", "U", "E", "L", "L", "E", "R", "-", "S", "T", "R", "A", "S", "S", "E">>
TextInputs ==
    UNION {[1 .. n -> TextAlphabet] : n \in 0 .. MaxTextLen}
    \cup {MuellerStrasse, MUELLER_STRASSE}

NormalizeInit == fn = "normalize_text" /\ fn_in \in TextInputs /\ fn_out = None

\* One call of normalize_text.
NormalizeText ==
    /\ fn = "normalize_text" /\ fn_out = None
    /\ fn_out' = Some(normalize_text(fn_in))
    /\ UNCHANGED <<fn, fn_in>>

(***************************************************************************)
(* difflib.SequenceMatcher(None, a, b).ratio() without junk: the longest   *)
(* matching block (the earliest in a, then the earliest in b, among the    *)
(* longest), then the same to its left and to its right; the ratio is      *)
(* 2 * M / (len(a) + len(b)) for the M characters matched.  Positions are  *)
(* 1-based and ranges inclusive.                                           *)
(***************************************************************************)
RECURSIVE CommonRun(_, _, _, _, _, _)
CommonRun(a, b, i, j, ahi, bhi) ==
    IF i > ahi \/ j > bhi \/ a[i] # b[j] THEN 0
    ELSE 1 + CommonRun(a, b, i + 1, j + 1, ahi, bhi)

find_longest_match(a, b, alo, ahi, blo, bhi) ==
    LET runs == [p \in (alo .. ahi) \X (blo .. bhi) |->
                    CommonRun(a, b, p[1], p[2], ahi, bhi)]
        best == CHOOSE p \in DOMAIN runs :
                   \A q \in DOMAIN runs :
                      \/ runs[q] < runs[p]
                      \/ /\ runs[q] = runs[p]
                         /\ \/ p[1] < q[1]
                            \/ p[1] = q[1] /\ p[2] <= q[2]
    IN  [i |-> best[1], j |-> best[2], k |-> runs[best]]

RECURSIVE MatchedCharacters(_, _, _, _, _, _)
MatchedCharacters(a, b, alo, ahi, blo, bhi) ==
    IF alo > ahi \/ blo > bhi THEN 0
    ELSE LET m == find_longest_match(a, b, alo, ahi, blo, bhi)
         IN  IF m.k = 0 THEN 0
             ELSE m.k + MatchedCharacters(a, b, alo, m.i - 1, blo, m.j - 1)
                      + MatchedCharacters(a, b, m.i + m.k, ahi, m.j + m.k, bhi)

\* score >= FUZZY_THRESHOLD, for FUZZY_THRESHOLD = 0.80 = 4/5:
\* 2 * M / (la + lb) >= 4/5  iff  FuzzyDen * 2 * M >= FuzzyNum * (la + lb).
\* (Python divides by zero for two empty strings only through the 1.0
\* shortcut of ratio(); match_modules_in_row never compares empty strings.)
FuzzyNum == 4
FuzzyDen == 5
RatioAtLeastThreshold(a, b) ==
    FuzzyDen * 2 * MatchedCharacters(a, b, 1, Len(a), 1, Len(b))
        >= FuzzyNum * (Len(a) + Len(b))

(***************************************************************************)
(* utils/ocr_engine.py: modules and their matching in a row.  A mapping    *)
(* (module_map_dict) is the sequence of its items in insertion order, a    *)
(* name or a category an optional value.                                   *)
(***************************************************************************)
Module(name, category, ects) == [name |-> name, category |-> category, ects |-> ects]

RECURSIVE _build_module_list_from_mapping(_)
_build_module_list_from_mapping(module_map_dict) ==
    IF module_map_dict = <<>> THEN <<>>
    ELSE LET item == Head(module_map_dict)
             rest == _build_module_list_from_mapping(Tail(module_map_dict))
         IN  IF item.name # None /\ item.cat # None
             THEN <<Module(lower(strip(Val(item.name))), Val(item.cat), None)>> \o rest
             ELSE rest

\* list.sort(key = len of the normalized name, reverse = True): stable, the
\* first of the longest comes first.
RECURSIVE SortByNormLength(_)
SortByNormLength(mods) ==
    IF mods = <<>> THEN <<>>
    ELSE LET len(i) == Len(normalize_text(mods[i].name))
             first == CHOOSE i \in DOMAIN mods :
                         \A j \in DOMAIN mods :
                            len(j) < len(i) \/ (len(j) = len(i) /\ i <= j)
         IN  <<mods[first]>>
             \o SortByNormLength([j \in 1 .. Len(mods) - 1 |->
                                     IF j < first THEN mods[j] ELSE mods[j + 1]])

\* (a resolution that keeps every candidate)
KeepSpecific_All(temp, kept) == kept \o temp

RECURSIVE KeepSpecific(_, _)
KeepSpecific(temp, kept) ==
    IF temp = <<>> THEN kept
    ELSE LET norm == normalize_text(Head(temp).name)
         IN  IF \E i \in DOMAIN kept :
                    LET kn == normalize_text(kept[i].name)
                    IN  norm # kn /\ Contains(norm, kn)
             THEN KeepSpecific(Tail(temp), kept)
             ELSE KeepSpecific(Tail(temp), Append(kept, Head(temp)))

_resolve_conflicts_keep_specific(mods) ==
    IF Len(mods) <= 1 THEN mods
    ELSE KeepSpecific(SortByNormLength(mods), <<>>)

\* The candidate lists _resolve_conflicts_keep_specific is called on: up to
\* MaxMods modules from a pool of names, of which some contain others, two
\* have the same normalized name and one has an empty normalized name.
MaxMods == 3
ModulePool ==
    {Module(name, "Statistik", None) :
        name \in {<<"s", "t", "a", "t", "i", "s", "t", "i", "k">>,
                  <<"s", "t", "a", "t", "i", "s", "t", "i", "k", " ", "i">>,
                  <<"S", "t", "a", "t", "i", "s", "t", "i", "k", "-", "I">>,
                  <<"s", "t", "a", "t">>,
                  <<"-">>,
                  <<"m", "a", "t", "h", "e">>}}
ResolveInputs == UNION {[1 .. n -> ModulePool] : n \in 0 .. MaxMods}

ResolveInit == fn = "_resolve_conflicts_keep_specific" /\ fn_in \in ResolveInputs /\ fn_out = None

\* One call of _resolve_conflicts_keep_specific.
ResolveConflicts ==
    /\ fn = "_resolve_conflicts_keep_specific" /\ fn_out = None
    /\ fn_out' = Some(_resolve_conflicts_keep_specific(fn_in))
    /\ UNCHANGED <<fn, fn_in>>

\* (a matching that returns the fuzzy hits along with the strict ones)
match_modules_in_row_Both(row_text, module_map, allow_fuzzy) ==
    LET text_norm == normalize_text(row_text)
        named == SelectSeq(module_map, LAMBDA mod : normalize_text(mod.name) # <<>>)
        IsHit(mod) == \/ Contains(normalize_text(mod.name), text_norm)
                      \/ allow_fuzzy /\ RatioAtLeastThreshold(normalize_text(mod.name), text_norm)
    IN  IF text_norm = <<>> THEN <<>>
        ELSE _resolve_conflicts_keep_specific(SelectSeq(named, IsHit))

match_modules_in_row(row_text, module_map, allow_fuzzy) ==
    LET text_norm == normalize_text(row_text)
        named == SelectSeq(module_map, LAMBDA mod : normalize_text(mod.name) # <<>>)
        IsStrict(mod) == Contains(normalize_text(mod.name), text_norm)
        IsFuzzy(mod) == /\ ~IsStrict(mod)
                        /\ allow_fuzzy
                        /\ RatioAtLeastThreshold(normalize_text(mod.name), text_norm)
        strict_hits == SelectSeq(named, IsStrict)
        fuzzy_hits == SelectSeq(named, IsFuzzy)
    IN  IF text_norm = <<>> THEN <<>>
        ELSE IF strict_hits # <<>> THEN _resolve_conflicts_keep_specific(strict_hits)
        ELSE IF fuzzy_hits # <<>> THEN _resolve_conflicts_keep_specific(fuzzy_hits)
        ELSE <<>>

\* The calls of match_modules_in_row: a row text, up to MaxMods modules of a
\* pool, and allow_fuzzy.
StatistikGrundlagen == <<"S", "t", "a", "t", "i", "s", "t", "i", "k", " ", "I", " ", "G", "r", "u", "n", "d", "l", "a", "g", "e", "n">>
MatchRows ==
    {StatistikGrundlagen,
     <<"S", "t", "a", "t", "i", "s", "t", "i", "k", " ", "I">>,
     <<"M", "a", "t", "h", "c", "m", "a", "t", "i", "k", " ", "8">>,
     <<"P", "h", "y", "s", "i", "k", " ", "5">>,
     <<"-", " ", "-">>,
     <<>>}
MatchPool ==
    {Module(name, "Statistik", None) :
        name \in {<<"s", "t", "a", "t", "i", "s", "t", "i", "k">>,
                  <<"s", "t", "a", "t", "i", "s", "t", "i", "k", " ", "i">>,
                  <<"s", "t", "a", "t", "i", "s", "t", "i", "k", " ", "i", "i">>,
                  <<"m", "a", "t", "h", "e", "m", "a", "t", "i", "k">>,
                  <<"-">>}}
MatchInputs ==
    [row_text : MatchRows,
     module_map : UNION {[1 .. n -> MatchPool] : n \in 0 .. MaxMods},
     allow_fuzzy : BOOLEAN]

MatchInit == fn = "match_modules_in_row" /\ fn_in \in MatchInputs /\ fn_out = None

\* One call of match_modules_in_row.
MatchModulesInRow ==
    /\ fn = "match_modules_in_row" /\ fn_out = None
    /\ fn_out' = Some(match_modules_in_row(fn_in.row_text, fn_in.module_map, fn_in.allow_fuzzy))
    /\ UNCHANGED <<fn, fn_in>>

(***************************************************************************)
(* utils/ocr_engine.py: the tokens of a page and its rows.  The OCR engine *)
(* gives each token as text, left, top, width and height in pixels; xc and *)
(* yc, the centroids x + w / 2.0 and y + h / 2.0, are in quarter pixels.   *)
(***************************************************************************)
Quarter == 4     \* quarter pixels in a pixel

Token(d) == [text |-> d.text, x |-> d.left, y |-> d.top, w |-> d.width, h |-> d.height,
             xc |-> Quarter * d.left + 2 * d.width,
             yc |-> Quarter * d.top + 2 * d.height]

\* list.sort(key): stable, so the first of the least comes first.  key gives
\* each position its sort key, a pair compared lexicographically.
RECURSIVE SortedPositions(_, _)
SortedPositions(key, left) ==
    IF left = {} THEN <<>>
    ELSE LET Before(i, j) == \/ key[i][1] < key[j][1]
                             \/ key[i][1] = key[j][1] /\ key[i][2] < key[j][2]
             first == CHOOSE i \in left :
                         \A j \in left : Before(i, j) \/ (~Before(j, i) /\ i <= j)
         IN  <<first>> \o SortedPositions(key, left \ {first})

SortTokens(tokens, key) ==
    LET order == SortedPositions(key, DOMAIN tokens)
    IN  [i \in DOMAIN tokens |-> tokens[order[i]]]

Row(current_row) ==
    LET sorted == SortTokens(current_row, [i \in DOMAIN current_row |-> <<current_row[i].x, 0>>])
    IN  [text |-> JoinSpace([i \in DOMAIN sorted |-> sorted[i].text]),
         tokens |-> sorted]

row_threshold == 10     \* pixels

\* (a grouping that puts all tokens into one row)
BuildRows_OneRow(tokens, current_row, last_y, rows) ==
    IF tokens = <<>> THEN rows ELSE <<Row(tokens)>>

\* the loop of _process_page_optimized over the sorted tokens
RECURSIVE BuildRows(_, _, _, _)
BuildRows(tokens, current_row, last_y, rows) ==
    IF tokens = <<>>
    THEN IF current_row # <<>> THEN Append(rows, Row(current_row)) ELSE rows
    ELSE LET t == Head(tokens)
         IN  IF last_y = None \/ Abs(t.yc - Val(last_y)) <= Quarter * row_threshold
             THEN BuildRows(Tail(tokens), Append(current_row, t), Some(t.yc), rows)
             ELSE BuildRows(Tail(tokens), <<t>>, Some(t.yc),
                            IF current_row # <<>> THEN Append(rows, Row(current_row))
                            ELSE rows)

\* What _process_page_optimized returns for the data image_to_data gave, and
\* for a page the engine raised on (the text notes are never read).
EmptyPage == [lines |-> <<>>, rows |-> <<>>]
_process_page_optimized(data, raised) ==
    IF raised THEN EmptyPage
    ELSE LET kept == SelectSeq(data, LAMBDA d : d.text # <<>> /\ ~isspace(d.text))
             made == [i \in DOMAIN kept |-> Token(kept[i])]
             tokens == SortTokens(made, [i \in DOMAIN made |-> <<made[i].yc, made[i].x>>])
             rows == BuildRows(tokens, <<>>, None, <<>>)
         IN  [lines |-> [i \in DOMAIN rows |-> rows[i].text], rows |-> rows]

HeaderRows == 20     \* rows[:20]
header_keywords == << <<"e", "c", "t", "s">>, <<"l", "p">>,
                      <<"c", "r", "e", "d", "i", "t">>,
                      <<"c", "r", "e", "d", "i", "t", "s">>,
                      <<"l", "e", "i", "s", "t", "u", "n", "g", "s", "p", "u", "n", "k", "t", "e">>,
                      <<"c", "p">> >>

\* (a collection that takes every token for a header)
RECURSIVE HeaderCentroids_Every(_)
HeaderCentroids_Every(rows) ==
    IF rows = <<>> THEN <<>>
    ELSE [i \in DOMAIN Head(rows).tokens |-> Head(rows).tokens[i].xc]
         \o HeaderCentroids_Every(Tail(rows))

RECURSIVE HeaderCentroids(_)
HeaderCentroids(rows) ==
    IF rows = <<>> THEN <<>>
    ELSE LET hit == SelectSeq(Head(rows).tokens,
                       LAMBDA tok : \E k \in DOMAIN header_keywords :
                                       Contains(header_keywords[k], lower(tok.text)))
         IN  [i \in DOMAIN hit |-> hit[i].xc] \o HeaderCentroids(Tail(rows))

\* None, or the median of the centroids, in quarter pixels
detect_ects_column(rows) ==
    LET found == HeaderCentroids(SubSeq(rows, 1, Min(HeaderRows, Len(rows))))
        order == SortedPositions([i \in DOMAIN found |-> <<found[i], 0>>], DOMAIN found)
        candidates == [i \in DOMAIN found |-> found[order[i]]]
        mid == Len(candidates) \div 2
    IN  IF candidates = <<>> THEN None
        ELSE IF Len(candidates) % 2 = 1 THEN Some(candidates[mid + 1])
        ELSE Some((candidates[mid] + candidates[mid + 1]) \div 2)

\* NUM_RE = ^\d+(?:[.,]\d+)?$ : the text splits into an integer part and, after
\* a point or a comma, a fraction, both of digits only and neither empty.
\* (extract_ects_from_row has replaced every comma by a point before.)
Separators == {".", ","}
IsDigits(s) == s # <<>> /\ \A i \in 1 .. Len(s) : s[i] \in Digits
NumMatch(txt) ==
    \/ IsDigits(txt)
    \/ \E i \in 1 .. Len(txt) :
          /\ txt[i] \in Separators
          /\ IsDigits(SubSeq(txt, 1, i - 1))
          /\ IsDigits(SubSeq(txt, i + 1, Len(txt)))

DigitValue(c) == CHOOSE n \in 0 .. 9 : <<"0", "1", "2", "3", "4", "5", "6", "7", "8", "9">>[n + 1] = c
RECURSIVE DigitsValue(_)
DigitsValue(s) ==
    IF s = <<>> THEN 0 ELSE 10 * DigitsValue(SubSeq(s, 1, Len(s) - 1)) + DigitValue(s[Len(s)])

\* float(txt) for a text NUM_RE matches, in hundredths of a credit.  The
\* documents of the model print credits with at most two decimals; digits
\* after the second one are cut here.
Hundredths == 100
ParseFloat(txt) ==
    IF IsDigits(txt) THEN Hundredths * DigitsValue(txt)
    ELSE LET i == CHOOSE i \in 1 .. Len(txt) : txt[i] \in Separators
             frac == SubSeq(txt, i + 1, Len(txt))
         IN  Hundredths * DigitsValue(SubSeq(txt, 1, i - 1))
             + (IF Len(frac) = 1 THEN 10 * DigitsValue(frac)
                ELSE DigitsValue(SubSeq(frac, 1, 2)))

max_distance == 40     \* pixels
MaxCredit == 40        \* val > 40 is no credit value

\* (a loop that takes the first number token, whatever its distance)
NearestNumber_First(tokens, ects_x, best) ==
    LET nums == SelectSeq(tokens, LAMBDA tok : NumMatch(tok.text))
    IN  IF nums = <<>> THEN None
        ELSE Some([val |-> ParseFloat(nums[1].text), dist |-> Abs(nums[1].xc - ects_x)])

\* The loop of extract_ects_from_row: best_token and best_dist after the
\* tokens of the row, from the left.
RECURSIVE NearestNumber(_, _, _)
NearestNumber(tokens, ects_x, best) ==
    IF tokens = <<>> THEN best
    ELSE LET tok == Head(tokens)
             txt == [i \in DOMAIN tok.text |-> IF tok.text[i] = "," THEN "." ELSE tok.text[i]]
             val == ParseFloat(txt)
             dist == Abs(tok.xc - ects_x)
         IN  IF /\ NumMatch(txt)
                /\ ~(val <= 0 \/ val > MaxCredit * Hundredths)
                /\ dist <= Quarter * max_distance
                /\ (best = None \/ dist < Val(best).dist)
             THEN NearestNumber(Tail(tokens), ects_x, Some([val |-> val, dist |-> dist]))
             ELSE NearestNumber(Tail(tokens), ects_x, best)

\* None, or the credit value in hundredths
extract_ects_from_row(row, ects_x) ==
    LET best == NearestNumber(row.tokens, ects_x, None)
    IN  IF best = None THEN None ELSE Some(Val(best).val)

(***************************************************************************)
(* Calls of the page functions of utils/ocr_engine.py on their own.        *)
(***************************************************************************)
\* What image_to_data gives for one token: glyphs 10 pixels wide and 20 high.
Glyph(text, left, top) ==
    [text |-> text, left |-> left, top |-> top, width |-> 10 * Len(text), height |-> 20]

\* The pages _process_page_optimized is called on: up to MaxTokens tokens, at
\* two columns and at tops 10, 11 and 21 pixels below the first, or blank.
MaxTokens == 4
PageTokens ==
    {Glyph(<<"a">>, left, top) : left \in {10, 50}, top \in {100, 110, 111, 121}}
    \cup {Glyph(<<" ">>, 10, 100), Glyph(<<>>, 0, 0)}
PageInputs == UNION {[1 .. n -> PageTokens] : n \in 0 .. MaxTokens}

PageInit == fn = "_process_page_optimized" /\ fn_in \in PageInputs /\ fn_out = None

\* One call of _process_page_optimized in which the engine does not raise.
ProcessPage ==
    /\ fn = "_process_page_optimized" /\ fn_out = None
    /\ fn_out' = Some(_process_page_optimized(fn_in, FALSE))
    /\ UNCHANGED <<fn, fn_in>>

\* The pages detect_ects_column is called on: some rows of noise, then up to
\* MaxHeaders rows of one token each, with a text of a pool and its centroid
\* at 100, 150 or 400 pixels.  Rows are 30 pixels apart.
MaxHeaders == 3
HeaderTexts == {<<"C", "r", "e", "d", "i", "t", "s">>, <<"N", "o", "t", "e">>, <<"ä", "c", "t", "s">>}
HeaderPool ==
    {[text |-> text, xc |-> xc] : text \in HeaderTexts, xc \in {100, 150, 400}}
DetectInputs ==
    [noise : {0, HeaderRows - 1, HeaderRows},
     headers : UNION {[1 .. n -> HeaderPool] : n \in 0 .. MaxHeaders}]
DetectRows(in) ==
    _process_page_optimized(
        [k \in 1 .. in.noise |-> Glyph(<<"~">>, 10, 100 + 30 * (k - 1))]
        \o [k \in DOMAIN in.headers |->
               Glyph(in.headers[k].text, in.headers[k].xc - 5 * Len(in.headers[k].text),
                     100 + 30 * (in.noise + k - 1))],
        FALSE).rows

DetectInit == fn = "detect_ects_column" /\ fn_in \in DetectInputs /\ fn_out = None

\* One call of detect_ects_column.
DetectEctsColumn ==
    /\ fn = "detect_ects_column" /\ fn_out = None
    /\ fn_out' = Some(detect_ects_column(DetectRows(fn_in)))
    /\ UNCHANGED <<fn, fn_in>>

\* The rows extract_ects_from_row is called on: up to MaxNumbers tokens in
\* one row, numbers and a word, at 40 and 0 pixels from ColumnAt, and a
\* column position at ColumnAt or half a pixel to its right.
MaxNumbers == 3
ColumnAt == 420
NumberTexts == {<<"8">>, <<"7", ",", "5">>, <<"4", "5">>, <<"0">>, <<"C", "P">>}
NumberPool ==
    {[text |-> text, xc |-> xc] :
        text \in NumberTexts, xc \in {ColumnAt - 40, ColumnAt, ColumnAt + 40}}
NumberRow(toks) ==
    Row([k \in DOMAIN toks |->
            Token(Glyph(toks[k].text, toks[k].xc - 5 * Len(toks[k].text), 100))])
ExtractRowInputs ==
    {[row |-> NumberRow(toks), ects_x |-> x] :
        toks \in UNION {[1 .. n -> NumberPool] : n \in 0 .. MaxNumbers},
        x \in {Quarter * ColumnAt, Quarter * ColumnAt + 2}}

ExtractRowInit == fn = "extract_ects_from_row" /\ fn_in \in ExtractRowInputs /\ fn_out = None

\* One call of extract_ects_from_row, with the default max_distance.
ExtractEctsFromRow ==
    /\ fn = "extract_ects_from_row" /\ fn_out = None
    /\ fn_out' = Some(extract_ects_from_row(fn_in.row, fn_in.ects_x))
    /\ UNCHANGED <<fn, fn_in>>

(***************************************************************************)
(* utils/ocr_engine.py: the aggregation loop of extract_ects_ocr.  The     *)
(* accumulator holds line_seen, col_seen, the two sums maps and the two    *)
(* lists of matches; a match is (name, category, value, text).             *)
(***************************************************************************)
InList(x, list) == \E i \in DOMAIN list : list[i] = x
ZeroSums(categories) == [cat \in {categories[i] : i \in DOMAIN categories} |-> 0]

EmptyAcc(categories) ==
    [line_seen |-> {}, col_seen |-> {},
     ects_per_cat_line |-> ZeroSums(categories),
     ects_per_cat_col |-> ZeroSums(categories),
     line_matches |-> <<>>, col_matches |-> <<>>]

\* (a row-based strategy that records a match of any category)
RECURSIVE AddLineMatches_Unfiltered(_, _, _, _)
AddLineMatches_Unfiltered(acc, found_mods, ln, categories) ==
    IF found_mods = <<>> THEN acc
    ELSE LET m == Head(found_mods)
             ects_val == IF m.ects # None THEN Val(m.ects) ELSE 0
         IN  AddLineMatches_Unfiltered(
                [acc EXCEPT !.line_matches = Append(@, <<m.name, m.category, ects_val, ln>>)],
                Tail(found_mods), ln, categories)

\* for m in found_mods, in the row-based strategy (B)
RECURSIVE AddLineMatches(_, _, _, _)
AddLineMatches(acc, found_mods, ln, categories) ==
    IF found_mods = <<>> THEN acc
    ELSE LET m == Head(found_mods)
             ects_val == IF m.ects # None THEN Val(m.ects) ELSE 0
             key == <<m.name, m.category, ects_val>>
         IN  IF ~InList(m.category, categories) \/ key \in acc.line_seen
             THEN AddLineMatches(acc, Tail(found_mods), ln, categories)
             ELSE AddLineMatches(
                     [acc EXCEPT !.line_seen = @ \cup {key},
                                 !.ects_per_cat_line[m.category] = @ + ects_val,
                                 !.line_matches = Append(@, <<m.name, m.category, ects_val, ln>>)],
                     Tail(found_mods), ln, categories)

\* for ln in lines
RECURSIVE LineStrategy(_, _, _, _)
LineStrategy(acc, lines, modules, categories) ==
    IF lines = <<>> THEN acc
    ELSE LineStrategy(
            IF is_trash_line(Head(lines)) THEN acc
            ELSE AddLineMatches(acc, match_modules_in_row(Head(lines), modules, TRUE),
                                Head(lines), categories),
            Tail(lines), modules, categories)

\* (a column-based strategy without the deduplication key)
RECURSIVE AddColMatches_NoKey(_, _, _, _, _)
AddColMatches_NoKey(acc, found_mods, ects_val, text, categories) ==
    IF found_mods = <<>> THEN acc
    ELSE LET m == Head(found_mods)
         IN  IF ~InList(m.category, categories)
             THEN AddColMatches_NoKey(acc, Tail(found_mods), ects_val, text, categories)
             ELSE AddColMatches_NoKey(
                     [acc EXCEPT !.ects_per_cat_col[m.category] = @ + ects_val,
                                 !.col_matches = Append(@, <<m.name, m.category, ects_val, text>>)],
                     Tail(found_mods), ects_val, text, categories)

\* for m in found_mods, in the column-based strategy (C)
RECURSIVE AddColMatches(_, _, _, _, _)
AddColMatches(acc, found_mods, ects_val, text, categories) ==
    IF found_mods = <<>> THEN acc
    ELSE LET m == Head(found_mods)
             key == <<m.name, m.category, ects_val>>
         IN  IF ~InList(m.category, categories) \/ key \in acc.col_seen
             THEN AddColMatches(acc, Tail(found_mods), ects_val, text, categories)
             ELSE AddColMatches(
                     [acc EXCEPT !.col_seen = @ \cup {key},
                                 !.ects_per_cat_col[m.category] = @ + ects_val,
                                 !.col_matches = Append(@, <<m.name, m.category, ects_val, text>>)],
                     Tail(found_mods), ects_val, text, categories)

\* for row in rows
RECURSIVE ColumnStrategy(_, _, _, _, _)
ColumnStrategy(acc, rows, ects_x, modules, categories) ==
    IF rows = <<>> THEN acc
    ELSE LET row == Head(rows)
             found_mods == match_modules_in_row(row.text, modules, TRUE)
             ects_val == extract_ects_from_row(row, ects_x)
         IN  ColumnStrategy(
                IF found_mods = <<>> \/ ects_val = None THEN acc
                ELSE AddColMatches(acc, found_mods, Val(ects_val), row.text, categories),
                Tail(rows), ects_x, modules, categories)

\* one iteration of "for lines, notes, rows in results"
AggregatePage(acc, page, modules, categories) ==
    LET ects_x == detect_ects_column(page.rows)
        after_lines == LineStrategy(acc, page.lines, modules, categories)
    IN  IF ects_x # None
        THEN ColumnStrategy(after_lines, page.rows, Val(ects_x), modules, categories)
        ELSE after_lines

RECURSIVE SumOver(_, _)
SumOver(f, keys) ==
    IF keys = {} THEN 0
    ELSE LET k == CHOOSE k \in keys : TRUE IN f[k] + SumOver(f, keys \ {k})
Total(sums) == SumOver(sums, DOMAIN sums)

\* 5. Final selection.  An evidence string "n -> c:e | txt" is the tuple of
\* its four parts; round(float(v), 2) of a sum of hundredths is that sum.
\* (a selection that never takes the column result)
SelectColumn_Never(total_col) == FALSE
SelectColumn(total_col) == total_col > 0
\* (a selection that returns the column sums with the row evidence)
FinalSelection_Mixed(acc) ==
    [sums |-> acc.ects_per_cat_col, matched |-> acc.line_matches,
     unrecognized |-> <<>>,
     method |-> IF Total(acc.ects_per_cat_col) > 0 THEN "ocr_optimized_column"
                ELSE "ocr_optimized_line"]
FinalSelection(acc) ==
    LET total_line == Total(acc.ects_per_cat_line)
        total_col == Total(acc.ects_per_cat_col)
    IN  IF SelectColumn(total_col)
        THEN [sums |-> acc.ects_per_cat_col, matched |-> acc.col_matches,
              unrecognized |-> <<>>, method |-> "ocr_optimized_column"]
        ELSE [sums |-> acc.ects_per_cat_line, matched |-> acc.line_matches,
              unrecognized |-> <<>>, method |-> "ocr_optimized_line"]

SkippedResult(categories, method) ==
    [sums |-> ZeroSums(categories), matched |-> <<>>, unrecognized |-> <<>>,
     method |-> method]

(***************************************************************************)
(* Documents of the credit extraction.  A document is named by a string;   *)
(* its pages are what the OCR engine reports on each page image: tokens    *)
(* with their text and box, in the engine's own order.  Boxes are given at *)
(* 300 dpi and scale with the resolution of the page image.                *)
(***************************************************************************)
OPTIMAL_DPI == 300
OPTIMAL_PSM == 6

\* a token of the engine's data: at 300 dpi a character is 10 pixels wide
\* and 20 high
Data(text, left, top) ==
    [text |-> text, left |-> left, top |-> top,
     width |-> 10 * Len(text), height |-> 20]

\* rows of noise above the only line of "mathDeep", 30 pixels apart
NoiseRows == HeaderRows

MathLine == << Data(<<"M", "a", "t", "h", "e", "m", "a", "t", "i", "k">>, 100, 100),
            Data(<<"I">>, 210, 100),
            Data(<<"-">>, 230, 100),
            Data(<<"8">>, 250, 100),
            Data(<<"C", "P">>, 270, 100) >>
MathLineWide == << Data(<<"M", "a", "t", "h", "e", "m", "a", "t", "i", "k">>, 100, 100),
                Data(<<"I">>, 210, 100),
                Data(<<"-">>, 230, 100),
                Data(<<"8">>, 250, 100),
                Data(<<"C", "P">>, 400, 100) >>
MathLineGarbled == << Data(<<"M", "@", "t", "h", "%", "m", "@", "t", "!", "k">>, 100, 100),
                   Data(<<"I">>, 210, 100),
                   Data(<<"-">>, 230, 100),
                   Data(<<"B">>, 250, 100),
                   Data(<<"C", "P">>, 270, 100) >>
TablePage1 == << Data(<<"E", "C", "T", "S">>, 400, 100),
              Data(<<"M", "o", "d", "u", "l">>, 100, 100),
              Data(<<"6">>, 415, 144),
              Data(<<"S", "t", "a", "t", "i", "s", "t", "i", "k">>, 100, 140),
              Data(<<"I">>, 200, 140),
              Data(<<"S", "t", "a", "t", "i", "s", "t", "i", "k">>, 100, 180),
              Data(<<"I", "I">>, 200, 180),
              Data(<<"7", ",", "5">>, 410, 180),
              Data(<<" ">>, 300, 180),
              Data(<<"M", "a", "t", "h", "c", "m", "a", "t", "i", "k">>, 100, 220),
              Data(<<"8">>, 415, 220),
              Data(<<"Ü", "b", "u", "n", "g">>, 100, 260),
              Data(<<"3">>, 300, 260),
              Data(<<"2", "0", "2", "1">>, 395, 260) >>
TablePage2 == << Data(<<"C", "r", "e", "d", "i", "t", "s">>, 400, 100),
              Data(<<"S", "t", "a", "t", "i", "s", "t", "i", "k">>, 100, 140),
              Data(<<"I">>, 200, 140),
              Data(<<"6", ".", "0">>, 410, 140),
              Data(<<"S", "t", "a", "t", "i", "s", "t", "i", "k">>, 100, 180),
              Data(<<"I">>, 200, 180),
              Data(<<"9">>, 415, 180),
              Data(<<"4", "5">>, 425, 180),
              Data(<<"P", "h", "y", "s", "i", "k">>, 100, 220),
              Data(<<"5">>, 415, 220) >>

ExtractDocs == {"mathNear", "mathWide", "mathDeep", "table", "lowres", "blank", "corrupt"}

\* "lowres" is read well only by another combination than the one the code
\* uses; "mathDeep" has its only line below NoiseRows rows of noise.
TokensAt300(doc, dpi, psm) ==
    CASE doc = "mathNear" -> <<MathLine>>
      [] doc = "mathWide" -> <<MathLineWide>>
      [] doc = "mathDeep" ->
            << [k \in 1 .. NoiseRows |-> Data(<<"~">>, 100, 100 + 30 * (k - 1))]
               \o [i \in DOMAIN MathLine |->
                      [MathLine[i] EXCEPT !.top = 100 + 30 * NoiseRows]] >>
      [] doc = "table" -> <<TablePage1, TablePage2>>
      [] doc = "lowres" ->
            IF dpi = OPTIMAL_DPI /\ psm = OPTIMAL_PSM THEN <<MathLineGarbled>>
            ELSE <<MathLine>>
      [] doc = "blank" -> << <<Data(<<" ">>, 100, 100), Data(<<>>, 0, 0)>> >>
      [] OTHER -> <<>>

Scale(v, dpi) == (v * dpi) \div OPTIMAL_DPI

\* convert_from_path(pdf_path, dpi = dpi): None when it raises, else the page
\* images, each named by its document, page and resolution.
convert_from_path(doc, dpi) ==
    IF doc = "corrupt" THEN None
    ELSE Some([p \in DOMAIN TokensAt300(doc, dpi, OPTIMAL_PSM) |->
                  [doc |-> doc, page |-> p, dpi |-> dpi]])

\* pytesseract.image_to_data(img, config = "--psm psm") when it does not raise
image_to_data(img, psm) ==
    LET at300 == TokensAt300(img.doc, img.dpi, psm)[img.page]
    IN  [i \in DOMAIN at300 |->
            [text |-> at300[i].text,
             left |-> Scale(at300[i].left, img.dpi), top |-> Scale(at300[i].top, img.dpi),
             width |-> Scale(at300[i].width, img.dpi),
             height |-> Scale(at300[i].height, img.dpi)]]

\* mappings (module_map_dict) and category lists of the callers
Item(name, cat) == [name |-> name, cat |-> cat]
MathMapping == <<Item(Some(<<"m", "a", "t", "h", "e", "m", "a", "t", "i", "k">>), Some("Mathematik"))>>
StudyMapping ==
    <<Item(Some(<<"S", "t", "a", "t", "i", "s", "t", "i", "k">>), Some("Statistik")),
      Item(Some(<<" ", "M", "a", "t", "h", "e", "m", "a", "t", "i", "k", " ">>), Some("Mathematik")),
      Item(Some(<<"s", "t", "a", "t", "i", "s", "t", "i", "k", " ", "i">>), Some("Statistik")),
      Item(Some(<<"Ü", "b", "u", "n", "g">>), Some("Sonstiges")),
      Item(None, Some("Statistik")),
      Item(Some(<<"-">>), Some("Mathematik"))>>
VoidMapping == <<Item(Some(<<"p", "h", "y", "s", "i", "k">>), None), Item(None, Some("Mathematik"))>>
ExtractMappings == {<<>>, VoidMapping, MathMapping, StudyMapping}
ExtractCategories == {<<>>, <<"Mathematik">>, <<"Statistik", "Mathematik">>}

(***************************************************************************)
(* utils/ocr_engine.py: extract_ects_ocr.  Extraction is the function from *)
(* the arguments, the file system and the pages the engine raised on to    *)
(* the result, for one resolution and one page segmentation mode; the      *)
(* code runs it for OPTIMAL_DPI and OPTIMAL_PSM only.                      *)
(***************************************************************************)
RECURSIVE AggregatePages(_, _, _, _)
AggregatePages(acc, results, modules, categories) ==
    IF results = <<>> THEN acc
    ELSE AggregatePages(AggregatePage(acc, Head(results), modules, categories),
                        Tail(results), modules, categories)

Extraction(in, dpi, psm, failed) ==
    LET modules == _build_module_list_from_mapping(in.mapping)
        pages == convert_from_path(in.doc, dpi)
    IN  IF modules = <<>> \/ ~in.exists
        THEN SkippedResult(in.categories, "ocr_skipped")
        ELSE IF pages = None
        THEN SkippedResult(in.categories, "rasterization_failed")
        ELSE LET results == [p \in DOMAIN Val(pages) |->
                                _process_page_optimized(image_to_data(Val(pages)[p], psm),
                                                        p \in failed)]
             IN  FinalSelection(AggregatePages(EmptyAcc(in.categories), results,
                                               modules, in.categories))

extract_ects_ocr(in, failed) == Extraction(in, OPTIMAL_DPI, OPTIMAL_PSM, failed)

\* 1. Quick fail checks
QuickFail ==
    /\ ex_pc = "called"
    /\ _build_module_list_from_mapping(ex_in.mapping) = <<>> \/ ~ex_in.exists
    /\ ex_result' = Some(SkippedResult(ex_in.categories, "ocr_skipped"))
    /\ ex_pc' = "done"
    /\ UNCHANGED <<ex_in, ex_pages, ex_tasks, ex_failed, ex_k, ex_acc, ex_raster, ex_order>>

\* 2. Image conversion; 3. the page tasks are handed to the thread pool
Rasterize ==
    /\ ex_pc = "called"
    /\ ~(_build_module_list_from_mapping(ex_in.mapping) = <<>> \/ ~ex_in.exists)
    /\ ex_raster' = ex_raster + 1
    /\ LET pages == convert_from_path(ex_in.doc, OPTIMAL_DPI)
       IN  IF pages = None
           THEN /\ ex_result' = Some(SkippedResult(ex_in.categories, "rasterization_failed"))
                /\ ex_pc' = "done"
                /\ UNCHANGED <<ex_pages, ex_tasks, ex_acc>>
           ELSE /\ ex_pages' = Val(pages)
                /\ ex_tasks' = [p \in DOMAIN Val(pages) |-> None]
                /\ ex_acc' = EmptyAcc(ex_in.categories)
                /\ ex_pc' = "ocr"
                /\ UNCHANGED ex_result
    /\ UNCHANGED <<ex_in, ex_failed, ex_k, ex_order>>

\* A page task of executor.map finishes, in any order: _process_page_optimized
\* returns the page's lines and rows, or the empty page when the engine raised.
PageTask(p) ==
    /\ ex_pc = "ocr"
    /\ p \in DOMAIN ex_tasks /\ ex_tasks[p] = None
    /\ \E raised \in BOOLEAN :
          /\ ex_tasks' = [ex_tasks EXCEPT ![p] =
                Some(_process_page_optimized(image_to_data(ex_pages[p], OPTIMAL_PSM), raised))]
          /\ ex_failed' = IF raised THEN ex_failed \cup {p} ELSE ex_failed
    /\ ex_order' = Append(ex_order, p)
    /\ UNCHANGED <<ex_pc, ex_in, ex_pages, ex_k, ex_acc, ex_result, ex_raster>>

\* (a pool that is left while tasks are running)
PoolShutdown_NoWait ==
    /\ ex_pc = "ocr"
    /\ ex_pc' = "aggregate"
    /\ UNCHANGED <<ex_in, ex_pages, ex_tasks, ex_failed, ex_k, ex_acc, ex_result, ex_raster, ex_order>>

\* Leaving "with ThreadPoolExecutor" waits for every task.
PoolShutdown ==
    /\ ex_pc = "ocr"
    /\ \A p \in DOMAIN ex_tasks : ex_tasks[p] # None
    /\ ex_pc' = "aggregate"
    /\ UNCHANGED <<ex_in, ex_pages, ex_tasks, ex_failed, ex_k, ex_acc, ex_result, ex_raster, ex_order>>

\* (an aggregation loop that takes the page results as they finished)
AggregateNext_AsCompleted ==
    /\ ex_pc = "aggregate"
    /\ ex_k < Len(ex_pages)
    /\ ex_acc' = AggregatePage(ex_acc, Val(ex_tasks[ex_order[ex_k + 1]]),
                               _build_module_list_from_mapping(ex_in.mapping),
                               ex_in.categories)
    /\ ex_k' = ex_k + 1
    /\ UNCHANGED <<ex_pc, ex_in, ex_pages, ex_tasks, ex_failed, ex_result, ex_raster, ex_order>>

\* 4. One iteration of the aggregation loop, in page order
AggregateNext ==
    /\ ex_pc = "aggregate"
    /\ ex_k < Len(ex_pages)
    /\ ex_acc' = AggregatePage(ex_acc, Val(ex_tasks[ex_k + 1]),
                               _build_module_list_from_mapping(ex_in.mapping),
                               ex_in.categories)
    /\ ex_k' = ex_k + 1
    /\ UNCHANGED <<ex_pc, ex_in, ex_pages, ex_tasks, ex_failed, ex_result, ex_raster, ex_order>>

\* 5. Final selection and return
ExtractReturn ==
    /\ ex_pc = "aggregate"
    /\ ex_k = Len(ex_pages)
    /\ ex_result' = Some(FinalSelection(ex_acc))
    /\ ex_pc' = "done"
    /\ UNCHANGED <<ex_in, ex_pages, ex_tasks, ex_failed, ex_k, ex_acc, ex_raster, ex_order>>

ExtractInputs ==
    [doc : ExtractDocs, mapping : ExtractMappings, categories : ExtractCategories,
     exists : BOOLEAN]

NoInput == [doc |-> "blank", mapping |-> <<>>, categories |-> <<>>, exists |-> FALSE]

ExtractIdle ==
    /\ ex_pc = "idle" /\ ex_in = NoInput
    /\ ex_pages = <<>> /\ ex_tasks = <<>> /\ ex_failed = {} /\ ex_k = 0
    /\ ex_acc = EmptyAcc(<<>>) /\ ex_result = None /\ ex_raster = 0
    /\ ex_order = <<>>

ExtractInit ==
    /\ ex_pc = "called" /\ ex_in \in ExtractInputs
    /\ ex_pages = <<>> /\ ex_tasks = <<>> /\ ex_failed = {} /\ ex_k = 0
    /\ ex_acc = EmptyAcc(<<>>) /\ ex_result = None /\ ex_raster = 0
    /\ ex_order = <<>>

ExtractNext ==
    \/ QuickFail
    \/ Rasterize
    \/ \E p \in DOMAIN ex_tasks : PageTask(p)
    \/ PoolShutdown
    \/ AggregateNext
    \/ ExtractReturn

(***************************************************************************)
(* utils/ocr_ects.py: extract_ects_hybrid_async and the process pool of    *)
(* get_ocr_pool.  Calls run as coroutines of one event loop; each hands    *)
(* extract_ects_ocr to the shared pool and awaits it under                 *)
(* asyncio.wait_for, whose clock starts when the work is submitted.  The   *)
(* pool runs at most max_workers work items at a time, in the order of     *)
(* submission.  Time is counted in ticks of TickSeconds seconds.           *)
(***************************************************************************)
TIMEOUT_SECONDS == 60
TickSeconds == 20
TimeoutTicks == TIMEOUT_SECONDS \div TickSeconds

MaxAsyncCalls == 3    \* calls of extract_ects_hybrid_async in a run
MaxPool == 2          \* the largest MAX_WORKERS
MaxDelay == 0         \* the latest time a call is made at
MaxTime == MaxDelay + TimeoutTicks

AsyncCalls == 1 .. MaxAsyncCalls

\* What a call is about: the arguments, whether the file exists, the ticks
\* extract_ects_ocr takes on a worker, whether it never finishes, and whether
\* the work item ends in an exception instead of a result.
AsyncInput(doc, mapping, exists, work, hangs, raises) ==
    [doc |-> doc, mapping |-> mapping, categories |-> <<"Mathematik">>,
     exists |-> exists, work |-> work, hangs |-> hangs, raises |-> raises]

AsyncInputs ==
    {AsyncInput("mathNear", MathMapping, TRUE, w, FALSE, FALSE) : w \in {1, TimeoutTicks + 1}}
    \cup {AsyncInput("mathNear", MathMapping, TRUE, 1, TRUE, FALSE),
          AsyncInput("mathNear", MathMapping, FALSE, 1, FALSE, FALSE),
          AsyncInput("mathNear", <<>>, TRUE, 1, FALSE, FALSE),
          AsyncInput("corrupt", MathMapping, TRUE, 1, FALSE, FALSE),
          AsyncInput("mathNear", MathMapping, TRUE, 1, FALSE, TRUE)}

\* return {}, [], [], method
FailedResult(method) ==
    [sums |-> <<>>, matched |-> <<>>, unrecognized |-> <<>>, method |-> method]

Running == {d \in AsyncCalls : as_work[d].state = "running"}

\* asyncio.wait_for: the timeout of a waiting call is due
\* (a wait without timeout)
TimeoutDue_Never(d) == FALSE
TimeoutDue(d) == as_call[d].pc = "waiting" /\ as_call[d].elapsed >= TimeoutTicks

\* a running work item has done its work
WorkReady(d) ==
    /\ as_work[d].state = "running"
    /\ ~as_in[d].hangs
    /\ as_work[d].progress >= as_in[d].work

\* The call of extract_ects_hybrid_async up to its await.  Calls are numbered
\* in the order they are made; a call is made early enough for the run to
\* cover its timeout.
AsyncCall(d) ==
    /\ as_call[d].pc = "init"
    /\ \A e \in AsyncCalls : e < d => as_call[e].pc # "init"
    /\ as_now + TimeoutTicks <= MaxTime
    /\ IF ~as_in[d].exists
       THEN /\ as_call' = [as_call EXCEPT ![d] =
                  [pc |-> "returned", elapsed |-> 0,
                   result |-> Some(SkippedResult(as_in[d].categories, "ocr_hocr"))]]
            /\ UNCHANGED <<as_work, as_queue>>
       ELSE /\ as_call' = [as_call EXCEPT ![d].pc = "waiting"]
            /\ as_work' = [as_work EXCEPT ![d].state = "queued"]
            /\ as_queue' = Append(as_queue, d)
    /\ UNCHANGED <<as_in, as_pool, as_now>>

\* A free worker takes the oldest work item and starts extract_ects_ocr on
\* it, which calls the rasterizer unless its quick fail check returns.
Rasterizes(in) == ~(_build_module_list_from_mapping(in.mapping) = <<>> \/ ~in.exists)
Dispatch ==
    /\ as_queue # <<>>
    /\ Cardinality(Running) < as_pool
    /\ LET d == Head(as_queue)
       IN  as_work' = [as_work EXCEPT ![d].state = "running",
                                      ![d].raster = Rasterizes(as_in[d])]
    /\ as_queue' = Tail(as_queue)
    /\ UNCHANGED <<as_in, as_pool, as_call, as_now>>

\* A work item ends; the call still awaiting it returns the result of
\* extract_ects_ocr, or the failure of "except Exception".
WorkDone(d) ==
    /\ WorkReady(d)
    /\ as_work' = [as_work EXCEPT ![d].state = "done"]
    /\ as_call' = IF as_call[d].pc = "waiting"
                  THEN [as_call EXCEPT ![d].pc = "returned",
                           ![d].result = Some(IF as_in[d].raises
                                              THEN FailedResult("FAILED_ERROR")
                                              ELSE extract_ects_ocr(as_in[d], {}))]
                  ELSE as_call
    /\ UNCHANGED <<as_in, as_pool, as_queue, as_now>>

\* "except asyncio.TimeoutError".  wait_for cancels the future: a work item a
\* worker runs keeps running; one still queued is dropped, or stays when the
\* pool has already moved it to its call queue.
Timeout(d) ==
    /\ TimeoutDue(d)
    /\ as_call' = [as_call EXCEPT ![d].pc = "returned",
                      ![d].result = Some(FailedResult("FAILED_TIMEOUT"))]
    /\ \/ UNCHANGED <<as_work, as_queue>>
       \/ /\ as_work[d].state = "queued"
          /\ as_work' = [as_work EXCEPT ![d].state = "cancelled"]
          /\ as_queue' = SelectSeq(as_queue, LAMBDA e : e # d)
    /\ UNCHANGED <<as_in, as_pool, as_now>>

\* Time passes once nothing is due at the present time: no timeout, no end
\* of a work item, no work item for a free worker.
NothingDue ==
    /\ \A d \in AsyncCalls : ~TimeoutDue(d) /\ ~WorkReady(d)
    /\ ~(as_queue # <<>> /\ Cardinality(Running) < as_pool)
Tick ==
    /\ as_now < MaxTime
    /\ NothingDue
    /\ as_now' = as_now + 1
    /\ as_call' = [d \in AsyncCalls |->
                     IF as_call[d].pc = "waiting"
                     THEN [as_call[d] EXCEPT !.elapsed = @ + 1]
                     ELSE as_call[d]]
    /\ as_work' = [d \in AsyncCalls |->
                     IF as_work[d].state = "running" /\ ~as_in[d].hangs
                     THEN [as_work[d] EXCEPT !.progress = @ + 1]
                     ELSE as_work[d]]
    /\ UNCHANGED <<as_in, as_pool, as_queue>>

AsyncIdle ==
    /\ as_in = <<>> /\ as_pool = 1 /\ as_call = <<>> /\ as_work = <<>>
    /\ as_queue = <<>> /\ as_now = 0

AsyncInit ==
    /\ as_in \in [AsyncCalls -> AsyncInputs]
    /\ as_pool \in 1 .. MaxPool
    /\ as_call = [d \in AsyncCalls |-> [pc |-> "init", elapsed |-> 0, result |-> None]]
    /\ as_work = [d \in AsyncCalls |-> [state |-> "none", progress |-> 0, raster |-> FALSE]]
    /\ as_queue = <<>>
    /\ as_now = 0

AsyncNext ==
    \/ \E d \in AsyncCalls : AsyncCall(d)
    \/ Dispatch
    \/ \E d \in AsyncCalls : WorkDone(d)
    \/ \E d \in AsyncCalls : Timeout(d)
    \/ Tick

(***************************************************************************)
(* Specifications.                                                         *)
(***************************************************************************)
InitGrade == GradeInit /\ CacheIdle /\ ClassifyIdle /\ ExtractIdle /\ AsyncIdle /\ CallIdle /\ ThreadsIdle
NextGrade == GradeNext /\ UNCHANGED <<cacheVars, classifyVars, extractVars, asyncVars, callVars, threadVars>>
SpecGrade == InitGrade /\ [][NextGrade]_vars

InitClassify == ClassifyInit /\ GradeIdle /\ ExtractIdle /\ AsyncIdle /\ CallIdle /\ ThreadsIdle
NextClassify == ClassifyNext /\ UNCHANGED <<extractVars, asyncVars, callVars, threadVars>>
SpecClassify == InitClassify /\ [][NextClassify]_vars

InitCache == CacheInit /\ GradeIdle /\ ClassifyIdle /\ ExtractIdle /\ AsyncIdle /\ CallIdle /\ ThreadsIdle
NextCache == CacheNext /\ UNCHANGED <<gradeVars, classifyVars, extractVars, asyncVars, callVars, threadVars>>
SpecCache == InitCache /\ [][NextCache]_vars

InitExtract == ExtractInit /\ GradeIdle /\ CacheIdle /\ ClassifyIdle /\ AsyncIdle /\ CallIdle /\ ThreadsIdle
NextExtract == ExtractNext /\ UNCHANGED <<gradeVars, cacheVars, classifyVars, asyncVars, callVars, threadVars>>
SpecExtract == InitExtract /\ [][NextExtract]_vars

InitAsync == AsyncInit /\ GradeIdle /\ CacheIdle /\ ClassifyIdle /\ ExtractIdle /\ CallIdle /\ ThreadsIdle
NextAsync == AsyncNext /\ UNCHANGED <<gradeVars, cacheVars, classifyVars, extractVars, callVars, threadVars>>
SpecAsync == InitAsync /\ [][NextAsync]_vars

OthersIdle == GradeIdle /\ CacheIdle /\ ClassifyIdle /\ ExtractIdle /\ AsyncIdle /\ ThreadsIdle
othersVars == <<gradeVars, cacheVars, classifyVars, extractVars, asyncVars, threadVars>>

InitVerify == VerifyInit /\ OthersIdle
NextVerify == VerifyGrade /\ UNCHANGED othersVars
SpecVerify == InitVerify /\ [][NextVerify]_vars

InitThreads == ThreadsInit /\ GradeIdle /\ ClassifyIdle /\ ExtractIdle /\ AsyncIdle /\ CallIdle
NextThreads ==
    ThreadsNext /\ UNCHANGED <<gradeVars, classifyVars, extractVars, asyncVars, callVars>>
SpecThreads == InitThreads /\ [][NextThreads]_vars

\* The two document-level calls that recognize page by page.
InitPages == InitExtract \/ InitCache
NextPages == NextExtract \/ NextCache
SpecPages == InitPages /\ [][NextPages]_vars

EngineInit == ResolveInit \/ MatchInit \/ PageInit \/ DetectInit \/ ExtractRowInit
EngineNext ==
    \/ ResolveConflicts
    \/ MatchModulesInRow
    \/ ProcessPage
    \/ DetectEctsColumn
    \/ ExtractEctsFromRow
InitEngine == EngineInit /\ OthersIdle
NextEngine == EngineNext /\ UNCHANGED othersVars
SpecEngine == InitEngine /\ [][NextEngine]_vars

InitNormalize == NormalizeInit /\ OthersIdle
NextNormalize == NormalizeText /\ UNCHANGED othersVars
SpecNormalize == InitNormalize /\ [][NextNormalize]_vars

(***************************************************************************)
(* Claims on the grade conversion.                                         *)
(***************************************************************************)

\* The scale a finished call ran on, and its ends.
GrScale == get_country_scale(gr_country)
GrLo == Min(Val(GrScale).best_grade, Val(GrScale).pass_grade)
GrHi == Max(Val(GrScale).best_grade, Val(GrScale).pass_grade)

\* The registry key a raw name spells, whatever its surface form.
GrKey == IF gr_country = None THEN "" ELSE Val(gr_country).text

\* C9: for every registered grade scale, descending or ascending,
\* convert_to_german maps a foreign grade equal to the scale's best value to
\* German 1.0 and one equal to the scale's passing value to German 4.0.  A
\* registered scale is an entry of _COUNTRY_SCALES, named by its key.
C9_BoundaryEveryRegisteredScale ==
    (gr_pc = "done" /\ GrKey \in DOMAIN CountryScales) =>
        /\ gr_foreign = CountryScales[GrKey].best_grade => gr_result = Some(100)
        /\ gr_foreign = CountryScales[GrKey].pass_grade => gr_result = Some(400)

\* The registry can give the scale of country c: some alias normalizes to c
\* and get_country_scale returns the entry of c for it.
Obtainable(c) ==
    \E raw \in RawNames :
       /\ normalize_country_name(raw) = Some(c)
       /\ get_country_scale(raw) = Some(CountryScales[c])

\* C29: every country that has an entry in the grade-scale table can be
\* obtained from get_country_scale through at least one alias, and every
\* alias of the alias table resolves to a country that has a grade-scale
\* entry.  Stated of the name a finished call was made with.
C29_RegistryConsistency ==
    gr_pc = "done" =>
        /\ GrKey \in DOMAIN CountryScales => Obtainable(GrKey)
        /\ GrKey \in DOMAIN CountryAliases =>
              /\ CountryAliases[GrKey] \in DOMAIN CountryScales
              /\ GrScale = Some(CountryScales[CountryAliases[GrKey]])

\* C10 as stated: the call rejects only for an unknown country or a grade
\* more than 5 units outside [min(best,pass), max(best,pass)], and returns
\* the clamped linear conversion for every other input.
C10_RejectsOnlyOutsideWindow ==
    gr_pc = "done" =>
        (gr_result = None <=>
            (GrScale = None \/ gr_foreign < GrLo - 500 \/ gr_foreign > GrHi + 500))

\* C10 as amended: the call rejects exactly when the country has no scale or
\* the grade lies outside [min(best,pass), max(best,pass)]; for every other
\* input it returns the linear conversion rounded to a hundredth, which lies
\* in [1.0, 4.0].
C10_RejectsOutsideScale ==
    gr_pc = "done" =>
        IF GrScale = None \/ gr_foreign < GrLo \/ gr_foreign > GrHi
        THEN gr_result = None
        ELSE /\ gr_result # None
             /\ Val(gr_result) >= 100 /\ Val(gr_result) <= 400
             /\ LET best == Val(GrScale).best_grade
                    pass == Val(GrScale).pass_grade
                    span == Abs(pass - best)
                    \* the linear value, in hundredths, times span
                    lin == 100 * span + 300 * Abs(gr_foreign - best)
                IN  2 * Abs(Val(gr_result) * span - lin) <= span

\* C10 witness: a grade worse than the passing value by at most 5 units, on
\* a known scale, has been rejected.
C10_Witness ==
    /\ gr_pc = "done" /\ GrScale # None
    /\ Val(GrScale).direction = "descending"
    /\ gr_foreign > GrHi /\ gr_foreign <= GrHi + 500
    /\ gr_result = None

(***************************************************************************)
(* Claims on the classifier.                                               *)
(***************************************************************************)
ScoreTypes == DOMAIN ZeroScores

\* The largest of the four scores.
MaxScore(scores) ==
    CHOOSE m \in {scores[t] : t \in ScoreTypes} : \A t \in ScoreTypes : scores[t] <= m

\* classify_document has returned at least once.
CmReturned == cm_results # <<>> /\ oc_last # None

\* C7: classify_document returns "other" with all four scores zero when the
\* first-page recognition result is empty or only whitespace; otherwise it
\* returns a document type with the maximum of the four scores, except that
\* it returns "other" whenever that maximum is below 2.
C7_ClassifierSelection ==
    CmReturned =>
        LET text == Val(oc_last).text
            scores == cm_doc.scores
        IN  IF IsBlankText(text)
            THEN cm_doc.doc_type = "other" /\ \A t \in ScoreTypes : scores[t] = 0
            ELSE /\ scores["transcript"] = score_transcript(text)
                 /\ scores["language_certificate"] = score_language_cert(text, cm_program)
                 /\ scores["degree_certificate"] = score_degree_certificate(text)
                 /\ scores["vpd"] = score_vpd(text)
                 /\ IF MaxScore(scores) < 2
                    THEN cm_doc.doc_type = "other"
                    ELSE /\ cm_doc.doc_type \in ScoreTypes
                         /\ scores[cm_doc.doc_type] = MaxScore(scores)

\* C7 witness: a document whose best score is exactly 2 has been labeled
\* with the type of that score.
C7_Witness ==
    /\ CmReturned
    /\ ~IsBlankText(Val(oc_last).text)
    /\ MaxScore(cm_doc.scores) = 2
    /\ cm_doc.doc_type = "transcript"

\* The positions of pdf_paths labeled "transcript".
TranscriptPositions == {i \in 1 .. Len(cm_results) : cm_results[i].doc_type = "transcript"}

\* The paths of pdf_paths, in order, whose iteration gave the label l.
RECURSIVE PathsLabeled(_, _)
PathsLabeled(l, n) ==
    IF n = 0 THEN <<>>
    ELSE IF cm_results[n].doc_type = l
         THEN Append(PathsLabeled(l, n - 1), cm_paths[n])
         ELSE PathsLabeled(l, n - 1)

\* C8: when classify_many has returned, every input document is in exactly
\* one by_type bucket, that of its own label; best_transcript is the first
\* document in input order among the transcript-labeled documents of the
\* highest transcript score, and it is (None, None) exactly when no document
\* is labeled "transcript".
C8_ClassifyMany ==
    cm_pc = "done" =>
        /\ Len(cm_results) = Len(cm_paths)
        /\ \A l \in Labels : by_type[l] = PathsLabeled(l, Len(cm_paths))
        /\ \A i, j \in 1 .. Len(cm_paths) :
              cm_paths[i] = cm_paths[j] => cm_results[i].doc_type = cm_results[j].doc_type
        /\ (best_transcript = None) <=> (TranscriptPositions = {})
        /\ best_transcript # None =>
              \E i \in TranscriptPositions :
                 /\ Val(best_transcript) = <<cm_paths[i], cm_results[i].scores>>
                 /\ \A j \in TranscriptPositions :
                       /\ cm_results[j].scores["transcript"] <= cm_results[i].scores["transcript"]
                       /\ j < i => cm_results[j].scores["transcript"]
                                      < cm_results[i].scores["transcript"]

\* C8 witness: two different documents labeled "transcript" share the highest
\* transcript score, a third one scores lower, and the first of the two is
\* the best transcript.
C8_Witness ==
    /\ cm_pc = "done"
    /\ \E i, j \in TranscriptPositions :
          /\ i < j /\ cm_paths[i] # cm_paths[j]
          /\ cm_results[i].scores["transcript"] = cm_results[j].scores["transcript"]
          /\ best_transcript = Some(<<cm_paths[i], cm_results[i].scores>>)
    /\ by_type["other"] # <<>>

\* C21: score_transcript returns 4 if the text contains a phrase of
\* TRANSCRIPT_KEYWORDS, plus 3 if it contains a credit keyword, plus 2 if it
\* has at least 2 semester markers, plus 1 if it has more than 20 lines with
\* a digit, each detector contributing independently of the others.
C21_TranscriptScore ==
    (CmReturned /\ ~IsBlankText(Val(oc_last).text)) =>
        LET text == Val(oc_last).text
        IN  cm_doc.scores["transcript"] =
                (IF Search(TRANSCRIPT_RE_keywords, text) THEN 4 ELSE 0)
                + (IF Search(ECTS_RE, text) THEN 3 ELSE 0)
                + (IF CountMatches(SEMESTER_RE, text) >= 2 THEN 2 ELSE 0)
                + (IF CountDigitLines(text) > 20 THEN 1 ELSE 0)

\* C30: when two or more document types share the maximum score and that
\* score is at least 2, classify_document returns the first of them in the
\* order transcript, language_certificate, degree_certificate, vpd.
TieOrder == <<"transcript", "language_certificate", "degree_certificate", "vpd">>
TopTypes(scores) == {k \in DOMAIN TieOrder : scores[TieOrder[k]] = MaxScore(scores)}
C30_LabelTieBreak ==
    (CmReturned /\ ~IsBlankText(Val(oc_last).text) /\ MaxScore(cm_doc.scores) >= 2) =>
        \E k \in TopTypes(cm_doc.scores) :
           /\ \A j \in TopTypes(cm_doc.scores) : k <= j
           /\ cm_doc.doc_type = TieOrder[k]

\* a document whose language and degree scores are the same and the highest
C30_Witness ==
    /\ CmReturned /\ ~IsBlankText(Val(oc_last).text)
    /\ MaxScore(cm_doc.scores) >= 2
    /\ TopTypes(cm_doc.scores) = {2, 3}
    /\ cm_doc.doc_type = "language_certificate"

(***************************************************************************)
(* Claims on the OCR text cache.                                           *)
(***************************************************************************)

\* C6: after ocr_text_from_pdf has recognized a document, every later call
\* for the same document bytes with the same resolution and the same page
\* limit returns the identical text without invoking the rasterizer or the
\* OCR engine again; and a call answered from the cache is answered with a
\* text recognized under its own page limit.
C6_CacheReuse ==
    oc_last # None =>
        LET c == Val(oc_last)
        IN  /\ c.known # {} =>
                  /\ c.text \in c.known
                  /\ ~c.rasterized
                  /\ c.engine_calls = 0
            /\ c.hit =>
                  \E e \in oc_recognized :
                     /\ e.max_pages = c.max_pages /\ e.dpi = c.dpi /\ e.text = c.text

\* The texts a run of ocr_text_from_pdf can recognize from the bytes doc at a
\* resolution and page limit, the engine failing on any subset of the pages.
RecognitionsOf(doc, dpi, max_pages) ==
    IF IsCorrupt(doc) THEN {EmptyText}
    ELSE LET images == ConvertFromPath(doc, max_pages)
         IN  {JoinLines([i \in 1 .. Len(images) |->
                            ocr_single_image(images[i], dpi, i \in failed)]) :
                 failed \in SUBSET (1 .. Len(images))}

\* C25: whatever files were overwritten before it, a call of
\* ocr_text_from_pdf on a path returns a text recognized from the bytes the
\* file holds at the time of the call: a text cached for earlier, different
\* bytes at the same path is never returned.
C25_CacheFreshness ==
    oc_last # None =>
        LET c == Val(oc_last)
        IN  c.text \in RecognitionsOf(c.bytes, c.dpi, c.max_pages)

\* The run of ocr_text_from_pdf recorded in c was incomplete: it missed the
\* cache and then rasterization failed, or the engine failed on a page.
IncompleteRun(c) ==
    /\ c.rasterized
    /\ IsCorrupt(c.bytes) \/ c.failed # {}

\* C26: a run of ocr_text_from_pdf with a rasterization failure or with a
\* failed or timed-out page leaves the OCR text cache unchanged; an entry is
\* written only by a run in which rasterization and every page succeeded.
C26_OnlyCompleteCached ==
    [][(oc_calls' = oc_calls + 1 /\ IncompleteRun(Val(oc_last')))
          => OCR_TEXT_CACHE' = OCR_TEXT_CACHE]_vars

(***************************************************************************)
(* Claims on the credit extraction.                                        *)
(***************************************************************************)
ExDone == ex_pc = "done" /\ ex_result # None
StrategyTags == {"ocr_optimized_line", "ocr_optimized_column"}

\* the line "Mathematik I - 8 CP"
C1Line == JoinSpace([i \in DOMAIN MathLine |-> MathLine[i].text])

\* The premise of C1: the mapping {"mathematik": "Mathematik"}, the categories
\* ["Mathematik"], a document recognized without failure whose only line
\* holding any letter or digit is "Mathematik I - 8 CP", and no credit column
\* detected on any page.
C1Premise ==
    /\ ex_in.mapping = MathMapping /\ ex_in.categories = <<"Mathematik">>
    /\ ex_failed = {} /\ ex_pages # <<>>
    /\ \E p \in DOMAIN ex_tasks : InList(C1Line, Val(ex_tasks[p]).lines)
    /\ \A p \in DOMAIN ex_tasks :
          /\ detect_ects_column(Val(ex_tasks[p]).rows) = None
          /\ \A i \in DOMAIN Val(ex_tasks[p]).lines :
                LET ln == Val(ex_tasks[p]).lines[i]
                IN  ln # C1Line => normalize_text(ln) = <<>>

\* C1: with mapping {"mathematik": "Mathematik"}, categories ["Mathematik"] and
\* a document whose only recognizable line is "Mathematik I - 8 CP" and for
\* which no credit column is detected, extract_ects_ocr returns the sums
\* {"Mathematik": 8.0} and the method tag of the row-based (line) strategy.
C1_EndToEnd ==
    (ExDone /\ C1Premise) =>
        /\ Val(ex_result).sums = [cat \in {"Mathematik"} |-> 8 * Hundredths]
        /\ Val(ex_result).method = "ocr_optimized_line"

\* The combinations of resolution and page segmentation mode a sweep as the
\* specification describes it would try.
SweepCombinations == {200, OPTIMAL_DPI} \X {4, OPTIMAL_PSM}

AsReturned(d) == as_call[d].pc = "returned" /\ as_call[d].result # None
AsResult(d) == Val(as_call[d].result)

\* C2: a document whose extraction exceeds the timeout returns
\* "FAILED_TIMEOUT", and every sibling whose own extraction work takes less
\* than the timeout returns its normal result, never "FAILED_TIMEOUT", for
\* any number of documents and any pool size.
C2_TimeoutIsolation ==
    \A d \in DOMAIN as_call :
       (AsReturned(d) /\ as_in[d].exists) =>
          /\ (as_in[d].hangs \/ as_in[d].work > TimeoutTicks) =>
                AsResult(d).method = "FAILED_TIMEOUT"
          /\ (~as_in[d].hangs /\ ~as_in[d].raises /\ as_in[d].work < TimeoutTicks) =>
                AsResult(d) = extract_ects_ocr(as_in[d], {})

\* C3: for an empty module mapping or a missing document the asynchronous
\* form returns a sums map holding 0.0 for every requested category, empty
\* evidence lists and a sentinel method tag, and neither the rasterizer nor
\* the OCR engine is invoked for the call.
C3_DegenerateInputs ==
    \A d \in DOMAIN as_call :
       (_build_module_list_from_mapping(as_in[d].mapping) = <<>> \/ ~as_in[d].exists) =>
          /\ ~as_work[d].raster
          /\ AsReturned(d) =>
                /\ AsResult(d).sums = ZeroSums(as_in[d].categories)
                /\ AsResult(d).matched = <<>>
                /\ AsResult(d).unrecognized = <<>>
                /\ AsResult(d).method \in {"ocr_skipped", "ocr_hocr"}

AsyncTags == StrategyTags \cup {"ocr_skipped", "ocr_hocr", "rasterization_failed",
                                "FAILED_TIMEOUT", "FAILED_ERROR"}

\* C4: every call of extract_ects_hybrid_async returns a 4-tuple whose method
\* tag is a strategy tag, a sentinel of degenerate input, the rasterization
\* failure tag, "FAILED_TIMEOUT" or "FAILED_ERROR"; no call waits longer than
\* the timeout, whatever its work item does: while it waits within the
\* timeout a step is possible, and at the timeout it can only return.
C4_AlwaysReturns ==
    \A d \in DOMAIN as_call :
       /\ as_call[d].elapsed <= TimeoutTicks
       /\ as_call[d].pc = "returned" =>
             /\ as_call[d].result # None
             /\ DOMAIN AsResult(d) = {"sums", "matched", "unrecognized", "method"}
             /\ AsResult(d).method \in AsyncTags
       /\ as_call[d].pc = "waiting" => (~NothingDue \/ as_now < MaxTime)
       /\ (as_call[d].pc = "waiting" /\ as_call[d].elapsed = TimeoutTicks) =>
             (TimeoutDue(d) /\ ~NothingDue)

\* C4 witness: one call has returned "FAILED_TIMEOUT" at the timeout while
\* its work item, which never finishes, still runs; a second call has
\* returned "FAILED_ERROR" and a third one a strategy result.
C4_Witness ==
    \E d, e, f \in DOMAIN as_call :
       /\ AsReturned(d) /\ AsResult(d).method = "FAILED_TIMEOUT"
       /\ as_in[d].hangs /\ as_work[d].state = "running"
       /\ as_call[d].elapsed = TimeoutTicks
       /\ AsReturned(e) /\ AsResult(e).method = "FAILED_ERROR"
       /\ AsReturned(f) /\ AsResult(f).method \in StrategyTags

\* C27: for every outcome of extract_ects_hybrid_async, a missing document,
\* a timeout and an internal error included, the returned sums map holds an
\* entry for each requested category and no entry for any other category.
C27_SumsMapShape ==
    \A d \in DOMAIN as_call :
       AsReturned(d) => DOMAIN AsResult(d).sums = DOMAIN ZeroSums(as_in[d].categories)

(***************************************************************************)
(* Claims on verify_grade.                                                 *)
(***************************************************************************)
\* C11: verify_grade returns (None, None, "NoClaimedGrade") for a missing
\* claimed grade whatever the country and the foreign grade are; otherwise
\* (None, None, "NoScaleOrInvalidForeign") for an unknown country or a grade
\* that cannot be converted; otherwise (True, converted, "OK") exactly when
\* |converted - claimed| <= tolerance and (False, converted, the mismatch
\* tag) when the difference exceeds the tolerance, with converted in
\* [1.0, 4.0].
C11_VerifyGradeOutcomes ==
    (fn = "verify_grade" /\ fn_out # None) =>
        LET out == Val(fn_out)
        IN  IF fn_in.claimed = None
            THEN out = VerifyResult(None, None, "NoClaimedGrade")
            ELSE \E conv \in convert_to_german(fn_in.country, fn_in.foreign) :
                    IF conv = None
                    THEN out = VerifyResult(None, None, "NoScaleOrInvalidForeign")
                    ELSE /\ out.converted = conv
                         /\ Val(conv) >= 100 /\ Val(conv) <= 400
                         /\ out.ok = Some(Abs(Val(conv) - Val(fn_in.claimed)) <= fn_in.tolerance)
                         /\ out.reason = IF Val(out.ok) THEN "OK" ELSE "BavarianMismatch"

(***************************************************************************)
(* Claims on the aggregation of extract_ects_ocr.                          *)
(***************************************************************************)
\* C13: the returned sums, evidence and method tag are those of the
\* column-based strategy exactly when the column-based total over all
\* categories is greater than zero, and otherwise those of the row-based
\* strategy; the two are never mixed.
Selected == ExDone /\ Val(ex_result).method \in StrategyTags
ColumnResult ==
    /\ Val(ex_result).sums = ex_acc.ects_per_cat_col
    /\ Val(ex_result).matched = ex_acc.col_matches
    /\ Val(ex_result).method = "ocr_optimized_column"
LineResult ==
    /\ Val(ex_result).sums = ex_acc.ects_per_cat_line
    /\ Val(ex_result).matched = ex_acc.line_matches
    /\ Val(ex_result).method = "ocr_optimized_line"
CategorySet == {ex_in.categories[i] : i \in DOMAIN ex_in.categories}
C13_ResultSelection ==
    Selected =>
        IF \E cat \in CategorySet : ex_acc.ects_per_cat_col[cat] > 0
        THEN ColumnResult
        ELSE LineResult

\* a call that returned the column result although the row-based strategy
\* had evidence too
C13_Witness ==
    /\ Selected /\ ColumnResult
    /\ ex_acc.line_matches # <<>>
    /\ ex_acc.line_matches # ex_acc.col_matches
    /\ ex_acc.ects_per_cat_line # ex_acc.ects_per_cat_col

\* C14: within one call each triple (module name, category, credit value)
\* adds its value to a strategy's category sum at most once and gives at most
\* one evidence entry, however many rows or pages hold it; the row-based and
\* the column-based strategy deduplicate independently of each other.
Triple(e) == <<e[1], e[2], e[3]>>
Triples(matches) == {Triple(matches[i]) : i \in DOMAIN matches}
RECURSIVE TripleSum(_, _)
TripleSum(triples, cat) ==
    IF triples = {} THEN 0
    ELSE LET t == CHOOSE t \in triples : TRUE
         IN  (IF t[2] = cat THEN t[3] ELSE 0) + TripleSum(triples \ {t}, cat)
Deduplicated(matches, sums) ==
    /\ \A i, j \in DOMAIN matches : Triple(matches[i]) = Triple(matches[j]) => i = j
    /\ \A cat \in DOMAIN sums : sums[cat] = TripleSum(Triples(matches), cat)
\* The row-based strategy alone, over the pages aggregated so far.
RECURSIVE LinesAlone(_)
LinesAlone(k) ==
    IF k = 0 THEN EmptyAcc(ex_in.categories)
    ELSE LineStrategy(LinesAlone(k - 1), Val(ex_tasks[k]).lines,
                      _build_module_list_from_mapping(ex_in.mapping), ex_in.categories)
C14_Deduplication ==
    ex_pc \in {"aggregate", "done"} /\ ex_pages # <<>> =>
        /\ Deduplicated(ex_acc.line_matches, ex_acc.ects_per_cat_line)
        /\ Deduplicated(ex_acc.col_matches, ex_acc.ects_per_cat_col)
        /\ ex_acc.line_matches = LinesAlone(ex_k).line_matches
        /\ ex_acc.ects_per_cat_line = LinesAlone(ex_k).ects_per_cat_line

\* Rows of a page that the column-based strategy gives the triple t.
RowsGiving(t, page) ==
    LET ects_x == detect_ects_column(page.rows)
    IN  IF ects_x = None THEN {}
        ELSE {i \in DOMAIN page.rows :
                /\ extract_ects_from_row(page.rows[i], Val(ects_x)) = Some(t[3])
                /\ \E m \in DOMAIN match_modules_in_row(page.rows[i].text,
                                      _build_module_list_from_mapping(ex_in.mapping), TRUE) :
                      LET mod == match_modules_in_row(page.rows[i].text,
                                      _build_module_list_from_mapping(ex_in.mapping), TRUE)[m]
                      IN  mod.name = t[1] /\ mod.category = t[2]}

\* a triple that rows of two pages give to the column-based strategy, and a
\* module recorded by both strategies
C14_Witness ==
    /\ ex_pc = "aggregate" /\ ex_k = 2
    /\ \E t \in ex_acc.col_seen :
          /\ RowsGiving(t, Val(ex_tasks[1])) # {}
          /\ RowsGiving(t, Val(ex_tasks[2])) # {}
    /\ \E i \in DOMAIN ex_acc.line_matches, j \in DOMAIN ex_acc.col_matches :
          ex_acc.line_matches[i][1] = ex_acc.col_matches[j][1]

\* C15: a match is recorded only if its module's category is in the
\* requested categories, every category sum is non-negative after every
\* row, and a match of a module of another category changes neither sums nor
\* evidence.
OtherModules ==
    LET modules == _build_module_list_from_mapping(ex_in.mapping)
    IN  {modules[i] : i \in {j \in DOMAIN modules : modules[j].category \notin CategorySet}}
Credits == {(Hundredths * v) \div 2 : v \in 1 .. 2 * MaxCredit}
C15_CategoryFilter ==
    ex_pc \in {"aggregate", "done"} /\ ex_pages # <<>> =>
        /\ \A i \in DOMAIN ex_acc.line_matches : ex_acc.line_matches[i][2] \in CategorySet
        /\ \A i \in DOMAIN ex_acc.col_matches : ex_acc.col_matches[i][2] \in CategorySet
        /\ DOMAIN ex_acc.ects_per_cat_line = CategorySet
        /\ DOMAIN ex_acc.ects_per_cat_col = CategorySet
        /\ \A cat \in CategorySet :
              ex_acc.ects_per_cat_line[cat] >= 0 /\ ex_acc.ects_per_cat_col[cat] >= 0
        /\ \A m \in OtherModules :
              /\ AddLineMatches(ex_acc, <<m>>, <<>>, ex_in.categories) = ex_acc
              /\ \A v \in Credits :
                    AddColMatches(ex_acc, <<m>>, v, <<>>, ex_in.categories) = ex_acc

\* a page aggregated whose lines match a module of a category not requested,
\* with matches of requested categories recorded
C15_Witness ==
    /\ ex_pc = "aggregate" /\ ex_k >= 1
    /\ ex_acc.col_matches # <<>> /\ ex_acc.line_matches # <<>>
    /\ \E i \in DOMAIN Val(ex_tasks[1]).lines :
          LET ln == Val(ex_tasks[1]).lines[i]
              found == match_modules_in_row(ln, _build_module_list_from_mapping(ex_in.mapping), TRUE)
          IN  ~is_trash_line(ln) /\ \E j \in DOMAIN found : found[j] \in OtherModules

(***************************************************************************)
(* Claims on the functions of utils/ocr_engine.py.                         *)
(***************************************************************************)
\* The ASCII transliteration of the claim (ä -> ae, ö -> oe, ü -> ue,
\* ß -> ss) and Python's str.upper, which maps ß to SS, the dotless i to I
\* and the ligature fi to FI.
Transliterate(s) == SubUmlaut(s)
RECURSIVE Upper(_)
Upper(s) ==
    IF s = <<>> THEN <<>>
    ELSE LET c == Head(s)
         IN  (IF \E i \in DOMAIN LowerCase : LowerCase[i] = c
              THEN <<UpperCase[CHOOSE i \in DOMAIN LowerCase : LowerCase[i] = c]>>
              ELSE IF c = "ß" THEN <<"S", "S">>
              ELSE IF c = DotlessI THEN <<"I">>
              ELSE IF c = LigatureFi THEN <<"F", "I">>
              ELSE <<c>>) \o Upper(Tail(s))

\* C12: normalize_text of a string equals normalize_text of its
\* ASCII-transliterated uppercase form; it maps the empty string to the
\* empty string, and its output holds only a-z, 0-9 and single inner spaces.
C12_NormalizeText ==
    (fn = "normalize_text" /\ fn_out # None) =>
        LET out == Val(fn_out)
        IN  /\ out = normalize_text(Upper(Transliterate(fn_in)))
            /\ fn_in = <<>> => out = <<>>
            /\ \A i \in 1 .. Len(out) : out[i] \in AsciiLower \cup Digits \cup {" "}
            /\ out # <<>> => out[1] # " " /\ out[Len(out)] # " "
            /\ \A i \in 1 .. Len(out) - 1 : ~(out[i] = " " /\ out[i + 1] = " ")

\* C16: _resolve_conflicts_keep_specific discards the candidates whose
\* normalized name is a substring of a different kept candidate's normalized
\* name and keeps all others, so no kept name is properly contained in
\* another kept name.
Norm(m) == normalize_text(m.name)
ProperlyIn(a, b) == Norm(a) # Norm(b) /\ Contains(Norm(a), Norm(b))
Count(m, mods) == Cardinality({i \in DOMAIN mods : mods[i] = m})
Range(mods) == {mods[i] : i \in DOMAIN mods}
StatistikModule == Module(<<"s", "t", "a", "t", "i", "s", "t", "i", "k">>, "Statistik", None)
StatistikIModule == Module(<<"s", "t", "a", "t", "i", "s", "t", "i", "k", " ", "i">>, "Statistik", None)
C16_KeepSpecific ==
    /\ (fn = "_resolve_conflicts_keep_specific" /\ fn_out # None) =>
          LET kept == Val(fn_out)
          IN  /\ \A m \in Range(fn_in) :
                    IF \E k \in Range(kept) : ProperlyIn(m, k)
                    THEN Count(m, kept) = 0
                    ELSE Count(m, kept) = Count(m, fn_in)
              /\ Range(kept) \subseteq Range(fn_in)
              /\ \A a, b \in Range(kept) : ~ProperlyIn(a, b)
    /\ (/\ fn = "match_modules_in_row" /\ fn_out # None
        /\ fn_in.row_text = StatistikGrundlagen
        /\ Range(fn_in.module_map) = {StatistikModule, StatistikIModule}) =>
          Range(Val(fn_out)) = {StatistikIModule}

\* a call that discards a candidate contained in a kept one and keeps two
\* candidates of the same normalized name
C16_Witness ==
    /\ fn = "_resolve_conflicts_keep_specific" /\ fn_out # None
    /\ Len(Val(fn_out)) = 2 /\ Len(fn_in) = 3
    /\ \E a, b \in Range(Val(fn_out)) : a # b /\ Norm(a) = Norm(b)
    /\ \E m \in Range(fn_in), k \in Range(Val(fn_out)) : ProperlyIn(m, k)

\* C17: match_modules_in_row returns fuzzy-matched modules (ratio >= 0.80)
\* only when no module's normalized name is a substring of the normalized
\* row text; with a strict match the result holds strict matches only, and
\* a row whose normalized text is empty yields no match.
IsSubstringMatch(m) == Contains(Norm(m), normalize_text(fn_in.row_text))
IsFuzzyMatch(m) ==
    /\ fn_in.allow_fuzzy
    /\ RatioAtLeastThreshold(Norm(m), normalize_text(fn_in.row_text))
MatchReturned == fn = "match_modules_in_row" /\ fn_out # None
StrictSuppressesFuzzy(strict) ==
    LET found == Range(Val(fn_out))
    IN  /\ normalize_text(fn_in.row_text) = <<>> => found = {}
        /\ found \subseteq Range(fn_in.module_map)
        /\ \A m \in found : IsSubstringMatch(m) \/ IsFuzzyMatch(m)
        /\ (\E m \in found : ~IsSubstringMatch(m)) => strict = {}
        /\ strict # {} => \A m \in found : IsSubstringMatch(m)
C17_StrictSuppressesFuzzy ==
    MatchReturned =>
        StrictSuppressesFuzzy({m \in Range(fn_in.module_map) : IsSubstringMatch(m)})

\* C17, for the modules whose normalized name is not empty: the empty name
\* is a substring of every row text, and the code skips such a module.
NamedStrict == {m \in Range(fn_in.module_map) : Norm(m) # <<>> /\ IsSubstringMatch(m)}
C17_NamedStrictSuppressesFuzzy ==
    MatchReturned =>
        /\ StrictSuppressesFuzzy(NamedStrict)
        /\ normalize_text(fn_in.row_text) # <<>> /\ NamedStrict # {} => Val(fn_out) # <<>>

\* a call with a strict and a fuzzy candidate that returns the strict one
C17_Witness ==
    /\ MatchReturned
    /\ \E m \in Range(fn_in.module_map) :
          ~IsSubstringMatch(m) /\ IsFuzzyMatch(m) /\ m \notin Range(Val(fn_out))
    /\ \E m \in Range(Val(fn_out)) : IsSubstringMatch(m)

\* C18: detect_ects_column looks only at the first 20 rows, collects the
\* horizontal centroid of every token whose normalized text contains a
\* header keyword, returns no column when none is found and otherwise the
\* median of the centroids (the average of the two middle values for an
\* even count); header tokens at centroids {100, 150, 400} give 150.
DetectReturned == fn = "detect_ects_column" /\ fn_out # None
KeywordIn(txt) == \E k \in DOMAIN header_keywords : Contains(header_keywords[k], txt)
\* the header tokens among the first 20 rows, each by its row and position
HeaderTokens(rows, Text(_)) ==
    UNION {{<<r, i>> : i \in {j \in DOMAIN rows[r].tokens : KeywordIn(Text(rows[r].tokens[j].text))}} :
              r \in 1 .. Min(HeaderRows, Len(rows))}
\* m is the median of the centroids of the tokens at the places hits
IsMedian(twice_m, rows, hits) ==
    LET xc(h) == rows[h[1]].tokens[h[2]].xc
        n == Cardinality(hits)
        Below(x) == Cardinality({h \in hits : xc(h) < x})
        Above(x) == Cardinality({h \in hits : xc(h) > x})
    IN  \E a, b \in hits :
           /\ Below(xc(a)) <= (n - 1) \div 2 /\ Above(xc(a)) <= n \div 2
           /\ Below(xc(b)) <= n \div 2 /\ Above(xc(b)) <= (n - 1) \div 2
           /\ twice_m = xc(a) + xc(b)
MedianOfHeaders(Text(_)) ==
    LET rows == DetectRows(fn_in)
        hits == HeaderTokens(rows, Text)
    IN  /\ hits = {} => Val(fn_out) = None
        /\ hits # {} => /\ Val(fn_out) # None
                        /\ IsMedian(2 * Val(Val(fn_out)), rows, hits)
        /\ {rows[h[1]].tokens[h[2]].xc : h \in hits} = {Quarter * 100, Quarter * 150, Quarter * 400}
           /\ Cardinality(hits) = 3
              => Val(fn_out) = Some(Quarter * 150)
C18_NormalizedHeaderMedian == DetectReturned => MedianOfHeaders(normalize_text)

\* C18, with the lower-cased text of a token in place of its normalized
\* text: the code tests tok["text"].lower().
C18_LowerHeaderMedian == DetectReturned => MedianOfHeaders(lower)

\* calls with headers at 100, 150 and 400 below a row of noise, and a call
\* with a header below the twentieth row
C18_Witness ==
    /\ DetectReturned
    /\ fn_in.noise = HeaderRows - 1 /\ Len(fn_in.headers) = 2
    /\ \A k \in DOMAIN fn_in.headers : KeywordIn(lower(fn_in.headers[k].text))
    /\ fn_in.headers[1].xc # fn_in.headers[2].xc
    /\ Val(fn_out) = Some(Quarter * fn_in.headers[1].xc)

\* C19: extract_ects_from_row returns the value of the row token that parses
\* as a number in (0, 40] and has the smallest horizontal distance to the
\* column position, provided that distance is at most 40 px (the first such
\* token in row order on equal distance); no value when no token qualifies;
\* a returned value is in (0, 40].
ExtractRowReturned == fn = "extract_ects_from_row" /\ fn_out # None
Decimal(text) == [i \in DOMAIN text |-> IF text[i] = "," THEN "." ELSE text[i]]
Distance(tok) == Abs(tok.xc - fn_in.ects_x)
Qualifies(tok) ==
    /\ NumMatch(Decimal(tok.text))
    /\ ParseFloat(Decimal(tok.text)) > 0
    /\ ParseFloat(Decimal(tok.text)) <= MaxCredit * Hundredths
    /\ Distance(tok) <= Quarter * max_distance
C19_NearestNumber ==
    ExtractRowReturned =>
        LET toks == fn_in.row.tokens
            ok == {i \in DOMAIN toks : Qualifies(toks[i])}
        IN  /\ ok = {} => Val(fn_out) = None
            /\ ok # {} =>
                  LET nearest == {i \in ok : \A j \in ok : Distance(toks[i]) <= Distance(toks[j])}
                      first == CHOOSE i \in nearest : \A j \in nearest : i <= j
                  IN  Val(fn_out) = Some(ParseFloat(Decimal(toks[first].text)))
            /\ Val(fn_out) # None =>
                  Val(Val(fn_out)) > 0 /\ Val(Val(fn_out)) <= MaxCredit * Hundredths

\* a row with two different numbers at the same distance on either side of
\* the column and a number out of range at the column itself: the left one
\* is returned
C19_Witness ==
    /\ ExtractRowReturned
    /\ LET toks == fn_in.row.tokens
       IN  /\ Len(toks) = 3
           /\ Qualifies(toks[1]) /\ ~Qualifies(toks[2]) /\ Qualifies(toks[3])
           /\ NumMatch(toks[2].text) /\ Distance(toks[2]) < Distance(toks[1])
           /\ Distance(toks[1]) = Distance(toks[3])
           /\ toks[1].text # toks[3].text
           /\ Val(fn_out) = Some(ParseFloat(Decimal(toks[1].text)))

\* C20: every non-blank token of a page is in exactly one row; two tokens
\* adjacent in the order by (vertical centroid, x) are in the same row
\* exactly when their vertical centroids differ by at most 10 px; the tokens
\* of a row are ordered left to right and the rows top to bottom.
PageReturned == fn = "_process_page_optimized" /\ fn_out # None
NonBlank == SelectSeq(fn_in, LAMBDA d : d.text # <<>> /\ \E i \in DOMAIN d.text : d.text[i] \notin Whitespace)
Occurrences(t, toks) == Cardinality({i \in DOMAIN toks : toks[i] = t})
RECURSIVE RowsOccurrences(_, _)
RowsOccurrences(t, rows) ==
    IF rows = <<>> THEN 0
    ELSE Occurrences(t, Head(rows).tokens) + RowsOccurrences(t, Tail(rows))
C20_RowsPartitionTokens ==
    PageReturned =>
        LET rows == Val(fn_out).rows
            given == [i \in DOMAIN NonBlank |-> Token(NonBlank[i])]
        IN  /\ \A r \in DOMAIN rows : rows[r].tokens # <<>>
            /\ \A i \in DOMAIN given :
                  RowsOccurrences(given[i], rows) = Occurrences(given[i], given)
            /\ \A r \in DOMAIN rows : \A i \in DOMAIN rows[r].tokens :
                  Occurrences(rows[r].tokens[i], given) > 0
            \* a row is a chain of tokens at most 10 px below the one before
            /\ \A r \in DOMAIN rows : \A i \in DOMAIN rows[r].tokens :
                  LET t == rows[r].tokens[i]
                  IN  \/ \A j \in DOMAIN rows[r].tokens : rows[r].tokens[j].yc >= t.yc
                      \/ \E j \in DOMAIN rows[r].tokens :
                            /\ rows[r].tokens[j].yc < t.yc
                            /\ t.yc - rows[r].tokens[j].yc <= Quarter * row_threshold
            \* the next row begins more than 10 px below the end of a row
            /\ \A r \in 1 .. Len(rows) - 1 :
                  \A i \in DOMAIN rows[r].tokens, j \in DOMAIN rows[r + 1].tokens :
                     rows[r + 1].tokens[j].yc - rows[r].tokens[i].yc > Quarter * row_threshold
            /\ \A r \in DOMAIN rows : \A i \in 1 .. Len(rows[r].tokens) - 1 :
                  rows[r].tokens[i].x <= rows[r].tokens[i + 1].x
            /\ Val(fn_out).lines = [r \in DOMAIN rows |-> rows[r].text]

\* a page with a blank token and two rows, the first a chain of two tokens
\* 10 px apart that the order by x reverses
C20_Witness ==
    /\ PageReturned
    /\ Len(fn_in) = 4 /\ Len(NonBlank) = 3
    /\ Len(Val(fn_out).rows) = 2
    /\ LET first == Val(fn_out).rows[1].tokens
       IN  /\ Len(first) = 2
           /\ first[1].yc - first[2].yc = Quarter * row_threshold

(***************************************************************************)
(* Claims on the recognition of pages.                                     *)
(***************************************************************************)
\* C22: when the OCR engine fails or times out on any subset of a document's
\* pages, each such page contributes empty output (no lines, no rows, empty
\* text) and extract_ects_ocr and ocr_text_from_pdf return a result built
\* from the remaining pages.
DegradedPages ==
    [p \in DOMAIN ex_pages |->
        IF p \in ex_failed THEN [lines |-> <<>>, rows |-> <<>>]
        ELSE _process_page_optimized(image_to_data(ex_pages[p], OPTIMAL_PSM), FALSE)]
DegradedText(c) ==
    LET images == ConvertFromPath(c.bytes, c.max_pages)
    IN  JoinLines([i \in DOMAIN images |->
                      IF i \in c.failed THEN << <<>> >> ELSE ImageToString(images[i], c.dpi)])
C22_PageFailureDegrades ==
    /\ ex_pc \in {"aggregate", "done"} /\ ex_pages # <<>> =>
          \A p \in DOMAIN ex_pages : ex_tasks[p] = Some(DegradedPages[p])
    /\ ExDone /\ ex_pages # <<>> =>
          /\ Val(ex_result).method \in StrategyTags
          /\ Val(ex_result) =
                FinalSelection(AggregatePages(EmptyAcc(ex_in.categories), DegradedPages,
                                              _build_module_list_from_mapping(ex_in.mapping),
                                              ex_in.categories))
    /\ oc_last # None =>
          LET c == Val(oc_last)
          IN  c.rasterized /\ ~IsCorrupt(c.bytes) => c.text = DegradedText(c)

\* an extraction that returned the credits of the second page after the
\* engine failed on the first
C22_Witness ==
    /\ ExDone /\ Len(ex_pages) = 2 /\ ex_failed = {1}
    /\ Val(ex_result).method = "ocr_optimized_column"
    /\ \E cat \in DOMAIN Val(ex_result).sums : Val(ex_result).sums[cat] > 0

\* C23: aggregation and the final selection of extract_ects_ocr begin only
\* after every page task of the worker pool has finished, the returned
\* result is computed from all pages, and no result is exposed while a page
\* task is running.
TaskRunning == \E p \in DOMAIN ex_tasks : ex_tasks[p] = None
C23_NoPartialResult ==
    /\ TaskRunning =>
          /\ ex_pc = "ocr" /\ ex_result = None
          /\ ex_k = 0 /\ ex_acc = EmptyAcc(ex_in.categories)
    /\ ex_pc = "aggregate" => ex_result = None
    /\ ExDone /\ Val(ex_result).method \in StrategyTags =>
          /\ ex_k = Len(ex_pages)
          /\ Len(ex_order) = Len(ex_pages)
          /\ Val(ex_result) =
                FinalSelection(AggregatePages(EmptyAcc(ex_in.categories),
                                              [p \in DOMAIN ex_tasks |-> Val(ex_tasks[p])],
                                              _build_module_list_from_mapping(ex_in.mapping),
                                              ex_in.categories))

\* the task of the first page has finished with credits to count while the
\* task of the second page is running
C23_Witness ==
    /\ ex_pc = "ocr" /\ Len(ex_pages) = 2
    /\ ex_order = <<1>> /\ ex_tasks[2] = None
    /\ AggregatePage(ex_acc, Val(ex_tasks[1]), _build_module_list_from_mapping(ex_in.mapping),
                     ex_in.categories).col_matches # <<>>

\* C28: the sums, evidence and method tag extract_ects_ocr returns do not
\* depend on the order in which the page tasks finish; the pages are
\* aggregated in page order, so runs whose page tasks return the same outputs
\* give the same result.
InPageOrder(k) ==
    AggregatePages(EmptyAcc(ex_in.categories), [p \in 1 .. k |-> Val(ex_tasks[p])],
                   _build_module_list_from_mapping(ex_in.mapping), ex_in.categories)
C28_SchedulingIndependence ==
    /\ ex_pc = "aggregate" => ex_acc = InPageOrder(ex_k)
    /\ ExDone /\ Val(ex_result).method \in StrategyTags =>
          /\ ex_acc = InPageOrder(Len(ex_pages))
          /\ Val(ex_result) = extract_ects_ocr(ex_in, ex_failed)

\* a call has returned after the task of the second page finished before
\* that of the first, with evidence that begins with the first page's
C28_Witness ==
    /\ ExDone /\ ex_order = <<2, 1>> /\ ex_failed = {}
    /\ Val(ex_result).method = "ocr_optimized_column"
    /\ Len(Val(ex_result).matched) >= 2
    /\ AggregatePage(EmptyAcc(ex_in.categories), Val(ex_tasks[2]),
                     _build_module_list_from_mapping(ex_in.mapping), ex_in.categories).col_matches
          # <<>>

(***************************************************************************)
(* Claims on the OCR text cache under concurrent callers.                  *)
(***************************************************************************)
\* C24: when several callers run ocr_text_from_pdf concurrently for the same
\* cache key, under every interleaving all callers return the same text and
\* the value left in the cache equals that text.
AllReturned == cc_thread # <<>> /\ \A t \in DOMAIN cc_thread : cc_thread[t].pc = "returned"
C24_ConcurrentCallersAgree ==
    AllReturned =>
        /\ \A t, u \in DOMAIN cc_thread :
              /\ cc_thread[t].cache_key = cc_thread[u].cache_key
              /\ cc_thread[t].text = cc_thread[u].text
        /\ \A t \in DOMAIN cc_thread :
              Val(cc_thread[t].cache_key) \in DOMAIN OCR_TEXT_CACHE =>
                 OCR_TEXT_CACHE[Val(cc_thread[t].cache_key)] = cc_thread[t].text

====
